---- MODULE Spec2Model ----
(***************************************************************************)
(* Prometheus remote storage adapter for BigQuery: the translation core of *)
(* src/bigquerydb/client.go (BigqueryClient.Write, BigqueryClient.Read,    *)
(* buildCommand, mergeResult, rowToSample) as a state machine.             *)
(*                                                                         *)
(* Strings are sequences of one-character strings, so that escaping and    *)
(* quoting are computed character by character.  float64 values are the    *)
(* tokens "NaN", "+Inf", "-Inf" and decimal numerals.  Timestamps are      *)
(* integers (milliseconds on the wire, as in prompb.Sample.Timestamp).     *)
(***************************************************************************)
EXTENDS Integers, Sequences, FiniteSets, Bags, TLC

VARIABLES
    \* --- BigqueryClient counters (client.go:425-429)
    ignoredSamples,     \* storage_bigquery_ignored_samples_total
    recordsFetched,     \* storage_bigquery_records_fetched
    batchWriteDuration, \* number of observations of the write histogram
    sqlQueryCount,      \* storage_bigquery_sql_query_count_total
    \* --- the warehouse table (metricname, tags, value, timestamp)
    table,              \* bag of stored rows
    \* --- the last Write call
    writes,             \* number of Write calls made so far
    timeseries,         \* argument of the last Write call
    puts,               \* the inserter.Put calls of the last Write call: rows, error
    writeErr,           \* value the last Write call returned
    nonFinite,          \* history: non-finite samples submitted so far
    \* --- the Read call in progress / last Read call
    rpc,                \* position of the Read call
    req,                \* its request: a sequence of sub-queries
    qi,                 \* index of the sub-query being processed
    iter,               \* row iterator of the current sub-query
    tsMap,              \* fingerprint -> accumulating series
    resp,               \* response returned (Nil when none)
    readErr,            \* error returned ("nil" when none)
    queryLog,           \* sub-query indexes whose query was issued, in order
    delivered,          \* history: rows the iterators handed over in this call
    readCalls,          \* number of Read calls started so far
    lastCall,           \* history: request, rows and outcome of the call before
    \* --- buildCommand applied to a drawn query (both revisions)
    cq,                 \* the drawn *prompb.Query
    cmd,                \* result of buildCommand (current revision)
    cmdPrev,            \* result of the earlier revision of buildCommand
    \* --- tagsFromMetric and rowToSample applied to a drawn label list
    tmSeries,           \* the drawn series: [Labels |-> label list]
    tmTags,             \* result of tagsFromMetric
    tmBack,             \* result of rowToSample on a row carrying tmTags
    \* --- Write invocations running concurrently on the client
    wr,                 \* invocation -> its position and locals
    \* --- serve (main.go of the current revision, lines 262-398)
    writers,            \* the argument writers: the names of the storages
    servePc,            \* position of serve's own goroutine
    sigPc,              \* position of the signal goroutine
    oscall,             \* the signal taken from sigChan
    inShutdown,         \* srv.Shutdown has been called
    idleConnectionClosed, \* the channel of that name has been closed
    process,            \* "running", or the exit code the process ended with
    handlers,           \* /write request -> position and locals of its handler
    \* --- the adapter's metrics (lines 68-127)
    sentSamples,        \* sent_samples_total, by storage name
    failedSamples,      \* failed_samples_total, by storage name
    sentBatchDuration,  \* observations of sent_batch_duration_seconds, by name
    writeErrors,        \* write_errors_total
    writeProcessingDuration, \* observations of write_api_seconds
    warnings            \* history: "error sending samples" lines logged

writeVars == <<ignoredSamples, recordsFetched, batchWriteDuration, table,
               writes, timeseries, puts, writeErr, nonFinite>>
readVars  == <<sqlQueryCount, rpc, req, qi, iter, tsMap, resp, readErr,
               queryLog, delivered, readCalls, lastCall>>
cmdVars   == <<cq, cmd, cmdPrev>>
tagVars   == <<tmSeries, tmTags, tmBack>>
srvVars   == <<writers, servePc, sigPc, oscall, inShutdown, idleConnectionClosed, process,
               handlers>>
metricVars == <<sentSamples, failedSamples, sentBatchDuration, writeErrors,
                writeProcessingDuration, warnings>>
vars      == <<writeVars, readVars, cmdVars, tagVars, wr, srvVars, metricVars>>

Nil == [nil |-> TRUE]

-----------------------------------------------------------------------------
(* Bounds of the model *)

MaxSeries   == 2    \* time series per Write call
MaxWrites   == 3    \* Write calls per behaviour
MaxRecords  == 6    \* cap of the records counter (samples submitted per behaviour)
MaxQueries  == 2    \* sub-queries per read request
MaxMatchers == 2    \* matchers per drawn query (buildCommand)
MaxReads    == 2    \* Read calls per behaviour
MaxWriters  == 2    \* Write invocations running concurrently

-----------------------------------------------------------------------------
(* Strings *)

\* byte values of the characters the model uses
CharCode(c) ==
    CASE c = "\"" -> 34
      [] c = "'"  -> 39
      [] c = "/"  -> 47
      [] c = "\\" -> 92
      [] c = "_"  -> 95
      [] c = "a"  -> 97
      [] c = "b"  -> 98
      [] c = "e"  -> 101
      [] c = "l"  -> 108
      [] c = "m"  -> 109
      [] c = "n"  -> 110

\* Go's < on strings: bytewise lexicographic
RECURSIVE StrLess(_, _)
StrLess(s, t) ==
    IF t = <<>> THEN FALSE
    ELSE IF s = <<>> THEN TRUE
    ELSE IF Head(s) = Head(t) THEN StrLess(Tail(s), Tail(t))
    ELSE CharCode(Head(s)) < CharCode(Head(t))

\* model.MetricNameLabel = "__name__"
MetricNameLabel == <<"_", "_", "n", "a", "m", "e", "_", "_">>

-----------------------------------------------------------------------------
(* Go maps: functions; reading a missing key gives the zero value *)

EmptyMap == [k \in {} |-> k]

MapPut(m, k, v) == [x \in DOMAIN m \cup {k} |-> IF x = k THEN v ELSE m[x]]

MapGet(m, k) == IF k \in DOMAIN m THEN m[k] ELSE <<>>

\* Go's integer division truncates toward zero
GoDiv(a, b) == IF a >= 0 THEN a \div b ELSE -((-a) \div b)

-----------------------------------------------------------------------------
(* encoding/json, for the values this program marshals and unmarshals *)

\* a JSON string token: quotes around the text, with " and \ escaped
RECURSIVE jsonEscape(_)
jsonEscape(s) ==
    IF s = <<>> THEN <<>>
    ELSE IF Head(s) \in {"\"", "\\"} THEN <<"\\", Head(s)>> \o jsonEscape(Tail(s))
    ELSE <<Head(s)>> \o jsonEscape(Tail(s))

jsonString(s) == <<"\"">> \o jsonEscape(s) \o <<"\"">>

IsJsonString(tok) == Len(tok) >= 2 /\ Head(tok) = "\"" /\ tok[Len(tok)] = "\""

RECURSIVE jsonUnescape(_)
jsonUnescape(s) ==
    IF s = <<>> THEN <<>>
    ELSE IF Head(s) = "\\" /\ Len(s) >= 2 THEN <<s[2]>> \o jsonUnescape(Tail(Tail(s)))
    ELSE <<Head(s)>> \o jsonUnescape(Tail(s))

\* the Go string a JSON string token decodes to
jsonStringValue(tok) == jsonUnescape(SubSeq(tok, 2, Len(tok) - 1))

\* json.Marshal of a map[string]interface{} holding strings: a JSON object,
\* member name -> JSON token of the value
json_Marshal(m) == [kind |-> "object", members |-> [k \in DOMAIN m |-> jsonString(m[k])]]

-----------------------------------------------------------------------------
(* Write path *)

math_IsNaN(v) == v = "NaN"

math_IsInf(v) == v \in {"+Inf", "-Inf"}

\* model.Time(ms).Unix(): whole seconds
TimeUnix(ms) == GoDiv(ms, 1000)

\* lines 552-555: the label list becomes a model.Metric, a later label of the
\* same name replacing an earlier one
RECURSIVE metricOfLabels(_, _)
metricOfLabels(labels, metric) ==
    IF labels = <<>> THEN metric
    ELSE metricOfLabels(Tail(labels), MapPut(metric, Head(labels).Name, Head(labels).Value))

\* faulty variant: the metric name stays among the tags
tagsFromMetric_KeepName(m) == json_Marshal(m)

\* lines 529-538
tagsFromMetric(m) ==
    json_Marshal([l \in DOMAIN m \ {MetricNameLabel} |-> m[l]])

Item(v, name, ts, tags) == [value |-> v, metricname |-> name, timestamp |-> ts, tags |-> tags]

\* faulty variant: the infinities are not tested
skipSample_NaNOnly(v) == math_IsNaN(v)

\* the skip test of lines 560-565
skipSample(v) == math_IsNaN(v) \/ math_IsInf(v)

\* lines 559-573: the loop over one series' samples; st carries the batch and
\* the ignored-samples counter
RECURSIVE writeSamples(_, _, _, _)
writeSamples(samples, metric, t, st) ==
    IF samples = <<>> THEN st
    ELSE LET s == Head(samples)
             v == s.Value
         IN IF skipSample(v)
            THEN writeSamples(Tail(samples), metric, t,
                              [st EXCEPT !.ignoredSamples = @ + 1])
            ELSE writeSamples(Tail(samples), metric, t,
                              [st EXCEPT !.batch = Append(@,
                                  Item(v, MapGet(metric, MetricNameLabel),
                                       TimeUnix(s.Timestamp), t))])

\* faulty variant: one insertion call per series, inside the loop
RECURSIVE writeSeries_PutPerSeries(_, _)
writeSeries_PutPerSeries(tss, st) ==
    IF tss = <<>> THEN st
    ELSE LET ts      == Head(tss)
             samples == ts.Samples
             st1     == [st EXCEPT !.recordsFetched = @ + Len(samples), !.batch = <<>>]
             metric  == metricOfLabels(ts.Labels, EmptyMap)
             st2     == writeSamples(samples, metric, tagsFromMetric(metric), st1)
         IN writeSeries_PutPerSeries(Tail(tss),
                [st2 EXCEPT !.puts = Append(@, [rows |-> st2.batch, err |-> "nil"]),
                            !.batch = <<>>])

\* faulty variant: the records counter is raised after the filter, by the
\* number of samples that entered the batch
RECURSIVE writeSeries_CountKept(_, _)
writeSeries_CountKept(tss, st) ==
    IF tss = <<>> THEN st
    ELSE LET ts      == Head(tss)
             samples == ts.Samples
             metric  == metricOfLabels(ts.Labels, EmptyMap)
             t       == tagsFromMetric(metric)
             st2     == writeSamples(samples, metric, t, st)
         IN writeSeries_CountKept(Tail(tss),
                [st2 EXCEPT !.recordsFetched = @ + (Len(st2.batch) - Len(st.batch))])

\* lines 548-574: the loop over the time series
RECURSIVE writeSeries(_, _)
writeSeries(tss, st) ==
    IF tss = <<>> THEN st
    ELSE LET ts      == Head(tss)
             samples == ts.Samples
             st1     == [st EXCEPT !.recordsFetched = @ + Len(samples)]
             metric  == metricOfLabels(ts.Labels, EmptyMap)
             t       == tagsFromMetric(metric)
         IN writeSeries(Tail(tss), writeSamples(samples, metric, t, st1))

\* Item.Save: the column values of one row, as handed to the warehouse
Save(i) == [value |-> i.value, metricname |-> i.metricname,
            timestamp |-> i.timestamp, tags |-> i.tags]

\* the warehouse stores a number given for a TIMESTAMP column as seconds since
\* the epoch; rows are kept here with their instant in milliseconds
StoredRow(saved) == [metricname |-> saved.metricname, tags |-> saved.tags,
                     value |-> saved.value, timestamp |-> saved.timestamp * 1000]

RECURSIVE InsertRows(_, _, _, _)
InsertRows(tbl, b, i, inserted) ==
    IF i > Len(b) THEN tbl
    ELSE InsertRows(IF i \in inserted THEN tbl (+) SetToBag({StoredRow(Save(b[i]))}) ELSE tbl,
                    b, i + 1, inserted)

\* what inserter.Put can do with a batch: the error it returns and the rows
\* that reached the table (SkipInvalidRows = true, line 543)
PutOutcomes(b) ==
    LET all == 1 .. Len(b) IN
    {[err |-> "nil", inserted |-> all],
     [err |-> "error", inserted |-> {}],
     [err |-> "deadline", inserted |-> {}],
     [err |-> "deadline", inserted |-> all]}
    \cup {[err |-> "PutMultiError", inserted |-> ins] : ins \in (SUBSET all) \ {all}}

\* faulty variant: a partial failure is printed and not returned
writeReturn_SwallowMultiError(putErr) ==
    IF putErr # "nil" /\ putErr # "PutMultiError" THEN putErr ELSE "nil"

\* lines 576-590: what Write returns for the error Put returned
writeReturn(putErr) == IF putErr # "nil" THEN putErr ELSE "nil"

\* every sample position <<series index, sample index>> of a write request
SamplePositions(tss) ==
    UNION {{<<i, j>> : j \in 1 .. Len(tss[i].Samples)} : i \in 1 .. Len(tss)}

NonFinitePositions(tss) ==
    {p \in SamplePositions(tss) : tss[p[1]].Samples[p[2]].Value \in {"NaN", "+Inf", "-Inf"}}

\* lines 541-591
Write(tss) ==
    /\ writes < MaxWrites
    /\ recordsFetched + Cardinality(SamplePositions(tss)) <= MaxRecords
    /\ LET st == writeSeries(tss, [batch |-> <<>>, puts |-> <<>>,
                                   ignoredSamples |-> ignoredSamples,
                                   recordsFetched |-> recordsFetched])
       IN /\ recordsFetched' = st.recordsFetched
          /\ ignoredSamples' = st.ignoredSamples
          /\ \E o \in PutOutcomes(st.batch) :
                /\ puts' = Append(st.puts, [rows |-> st.batch, err |-> o.err])
                /\ table' = InsertRows(table, st.batch, 1, o.inserted)
                /\ writeErr' = writeReturn(o.err)
                /\ batchWriteDuration' =
                      IF o.err # "nil" THEN batchWriteDuration ELSE batchWriteDuration + 1
    /\ writes' = writes + 1
    /\ timeseries' = tss
    /\ nonFinite' = nonFinite + Cardinality(NonFinitePositions(tss))
    /\ UNCHANGED <<readVars, cmdVars, tagVars, wr, srvVars, metricVars>>

-----------------------------------------------------------------------------
(* Write invocations running concurrently (one goroutine per HTTP request) *)

Writers == 1 .. MaxWriters

\* pc: "idle" before the call, "series" at the head of the loop over the
\* series (line 548), "sample" at the head of the loop over the samples
\* (line 559), "done" after the return; i, j: the series and sample indexes;
\* overlap (history): another invocation was running when this one began
IdleWriter == [pc |-> "idle", tss |-> <<>>, i |-> 0, j |-> 0, batch |-> <<>>, err |-> "nil",
               overlap |-> FALSE]

\* faulty variant: the addition is a read and a later write, so it may start
\* from any value the counter has held
counterAdd_ReadThenWrite(cur, n) == {old + n : old \in 0 .. cur}

\* prometheus.Counter.Add and Inc of a whole number: one atomic addition; the
\* values the counter may hold after it
counterAdd(cur, n) == {cur + n}

\* line 541: a handler goroutine enters Write
WriteCall(w, tss) ==
    /\ wr[w].pc = "idle"
    /\ wr' = [wr EXCEPT ![w] = [pc |-> "series", tss |-> tss, i |-> 1, j |-> 0,
                                 batch |-> <<>>, err |-> "nil",
                                 overlap |-> \E v \in Writers \ {w} :
                                                wr[v].pc \in {"series", "sample"}]]
    /\ UNCHANGED <<writeVars, readVars, cmdVars, tagVars, srvVars, metricVars>>

\* lines 548-557: the next series; its samples are added to the records
\* counter
WriteSeries(w) ==
    /\ wr[w].pc = "series"
    /\ wr[w].i <= Len(wr[w].tss)
    /\ LET samples == wr[w].tss[wr[w].i].Samples IN
       /\ \E v \in counterAdd(recordsFetched, Len(samples)) : recordsFetched' = v
       /\ wr' = IF samples = <<>>
                THEN [wr EXCEPT ![w].i = @ + 1]
                ELSE [wr EXCEPT ![w].pc = "sample", ![w].j = 1]
    /\ UNCHANGED <<ignoredSamples, batchWriteDuration, table, writes, timeseries, puts,
                   writeErr, nonFinite, readVars, cmdVars, tagVars, srvVars, metricVars>>

\* lines 559-573: the next sample of the series is skipped and counted, or
\* joins the batch
WriteSample(w) ==
    /\ wr[w].pc = "sample"
    /\ LET ts     == wr[w].tss[wr[w].i]
           s      == ts.Samples[wr[w].j]
           metric == metricOfLabels(ts.Labels, EmptyMap)
           last   == wr[w].j = Len(ts.Samples)
           batch  == IF skipSample(s.Value) THEN wr[w].batch
                     ELSE Append(wr[w].batch,
                                 Item(s.Value, MapGet(metric, MetricNameLabel),
                                      TimeUnix(s.Timestamp), tagsFromMetric(metric)))
       IN /\ IF skipSample(s.Value)
             THEN \E v \in counterAdd(ignoredSamples, 1) : ignoredSamples' = v
             ELSE UNCHANGED ignoredSamples
          /\ wr' = IF last
                   THEN [wr EXCEPT ![w].pc = "series", ![w].i = @ + 1, ![w].j = 0,
                                   ![w].batch = batch]
                   ELSE [wr EXCEPT ![w].j = @ + 1, ![w].batch = batch]
    /\ UNCHANGED <<recordsFetched, batchWriteDuration, table, writes, timeseries, puts,
                   writeErr, nonFinite, readVars, cmdVars, tagVars, srvVars, metricVars>>

\* lines 576-590: the insertion call and the return
WritePut(w) ==
    /\ wr[w].pc = "series"
    /\ wr[w].i > Len(wr[w].tss)
    /\ \E o \in PutOutcomes(wr[w].batch) :
          /\ table' = InsertRows(table, wr[w].batch, 1, o.inserted)
          /\ wr' = [wr EXCEPT ![w].pc = "done", ![w].err = writeReturn(o.err)]
          /\ batchWriteDuration' =
                IF o.err # "nil" THEN batchWriteDuration ELSE batchWriteDuration + 1
    /\ UNCHANGED <<ignoredSamples, recordsFetched, writes, timeseries, puts, writeErr,
                   nonFinite, readVars, cmdVars, tagVars, srvVars, metricVars>>

-----------------------------------------------------------------------------
(* Matcher translation: buildCommand *)

\* escapeSingleQuotes: every ' becomes \'
RECURSIVE escapeSingleQuotes(_)
escapeSingleQuotes(str) ==
    IF str = <<>> THEN <<>>
    ELSE IF Head(str) = "'" THEN <<"\\", "'">> \o escapeSingleQuotes(Tail(str))
    ELSE <<Head(str)>> \o escapeSingleQuotes(Tail(str))

\* escapeSlashes: every / becomes \/
RECURSIVE escapeSlashes(_)
escapeSlashes(str) ==
    IF str = <<>> THEN <<>>
    ELSE IF Head(str) = "/" THEN <<"\\", "/">> \o escapeSlashes(Tail(str))
    ELSE <<Head(str)>> \o escapeSlashes(Tail(str))

\* One predicate of the WHERE clause, as the text fmt.Sprintf produces it:
\*   op      "=", "!=", "REGEXP_CONTAINS", "not REGEXP_CONTAINS"
\*   column  "metricname", or "tags" for JSON_EXTRACT(tags, '<path>')
\*   path    the text between the quotes of the JSONPath literal
\*   ifnull  whether the extraction is wrapped in IFNULL(..., '""')
\*   lit     the text between the quotes of the compared literal ('...' for
\*           = and !=, r'...' for REGEXP_CONTAINS)
Predicate(op, column, path, ifnull, lit) ==
    [op |-> op, column |-> column, path |-> path, ifnull |-> ifnull, lit |-> lit]

\* timestamp >= TIMESTAMP_MILLIS(ms) and timestamp <= TIMESTAMP_MILLIS(ms)
BoundPredicate(op, ms) ==
    [op |-> op, column |-> "timestamp", path |-> <<>>, ifnull |-> FALSE, lit |-> <<>>,
     millis |-> ms]

Quoted(v) == <<"\"">> \o v \o <<"\"">>

JsonPath(name) == <<"$", ".">> \o name

SupportedTypes == {"EQ", "NEQ", "RE", "NRE"}

\* faulty variant: not-equal written with = and regex-not-match without not
metricNamePredicate_NoNegation(m) ==
    CASE m.Type \in {"EQ", "NEQ"} ->
             Predicate("=", "metricname", <<>>, FALSE, escapeSingleQuotes(m.Value))
      [] m.Type \in {"RE", "NRE"} ->
             Predicate("REGEXP_CONTAINS", "metricname", <<>>, FALSE, escapeSlashes(m.Value))

\* lines 660-674: a matcher on the metric name
metricNamePredicate(m) ==
    CASE m.Type = "EQ"  -> Predicate("=", "metricname", <<>>, FALSE, escapeSingleQuotes(m.Value))
      [] m.Type = "NEQ" -> Predicate("!=", "metricname", <<>>, FALSE, escapeSingleQuotes(m.Value))
      [] m.Type = "RE"  -> Predicate("REGEXP_CONTAINS", "metricname", <<>>, FALSE,
                                     escapeSlashes(m.Value))
      [] m.Type = "NRE" -> Predicate("not REGEXP_CONTAINS", "metricname", <<>>, FALSE,
                                     escapeSlashes(m.Value))

\* lines 676-688: a matcher on any other label
labelPredicate(m) ==
    CASE m.Type = "EQ"  -> Predicate("=", "tags", JsonPath(m.Name), TRUE, Quoted(m.Value))
      [] m.Type = "NEQ" -> Predicate("!=", "tags", JsonPath(m.Name), TRUE, Quoted(m.Value))
      [] m.Type = "RE"  -> Predicate("REGEXP_CONTAINS", "tags", JsonPath(m.Name), TRUE,
                                     Quoted(m.Value))
      [] m.Type = "NRE" -> Predicate("not REGEXP_CONTAINS", "tags", JsonPath(m.Name), TRUE,
                                     Quoted(m.Value))

\* lines 296-308 (earlier revision): no IFNULL, and NEQ written with =
labelPredicatePrev(m) ==
    CASE m.Type = "EQ"  -> Predicate("=", "tags", JsonPath(m.Name), FALSE, Quoted(m.Value))
      [] m.Type = "NEQ" -> Predicate("=", "tags", JsonPath(m.Name), FALSE, Quoted(m.Value))
      [] m.Type = "RE"  -> Predicate("REGEXP_CONTAINS", "tags", JsonPath(m.Name), FALSE,
                                     Quoted(m.Value))
      [] m.Type = "NRE" -> Predicate("not REGEXP_CONTAINS", "tags", JsonPath(m.Name), FALSE,
                                     Quoted(m.Value))

UnknownMatchType == "unknown match type"

\* faulty variant: a matcher of an unsupported kind is skipped
RECURSIVE buildMatchers_SkipUnknown(_, _)
buildMatchers_SkipUnknown(ms, matchers) ==
    IF ms = <<>> THEN [err |-> "nil", matchers |-> matchers]
    ELSE LET m == Head(ms) IN
         IF m.Type \notin SupportedTypes
         THEN buildMatchers_SkipUnknown(Tail(ms), matchers)
         ELSE buildMatchers_SkipUnknown(Tail(ms),
                  Append(matchers, IF m.Name = MetricNameLabel THEN metricNamePredicate(m)
                                   ELSE labelPredicate(m)))

\* lines 658-689: the loop over the matchers; the first matcher of an
\* unsupported kind ends it with an error
RECURSIVE buildMatchers(_, _)
buildMatchers(ms, matchers) ==
    IF ms = <<>> THEN [err |-> "nil", matchers |-> matchers]
    ELSE LET m == Head(ms) IN
         IF m.Type \notin SupportedTypes
         THEN [err |-> UnknownMatchType, matchers |-> <<>>]
         ELSE buildMatchers(Tail(ms),
                  Append(matchers, IF m.Name = MetricNameLabel THEN metricNamePredicate(m)
                                   ELSE labelPredicate(m)))

RECURSIVE buildMatchersPrev(_, _)
buildMatchersPrev(ms, matchers) ==
    IF ms = <<>> THEN [err |-> "nil", matchers |-> matchers]
    ELSE LET m == Head(ms) IN
         IF m.Type \notin SupportedTypes
         THEN [err |-> UnknownMatchType, matchers |-> <<>>]
         ELSE buildMatchersPrev(Tail(ms),
                  Append(matchers, IF m.Name = MetricNameLabel THEN metricNamePredicate(m)
                                   ELSE labelPredicatePrev(m)))

\* the query text: SELECT metricname, tags, UNIX_MILLIS(timestamp) as
\* timestamp, value FROM <dataset>.<table> WHERE <where, joined by AND>
\* ORDER BY timestamp
Command(where) == [where |-> where, orderBy |-> "timestamp"]

\* faulty variant: the two bound predicates are left out
buildCommand_NoBounds(q) ==
    LET r == buildMatchers(q.Matchers, <<>>) IN
    IF r.err # "nil" THEN [query |-> Nil, err |-> r.err]
    ELSE [query |-> Command(r.matchers), err |-> "nil"]

\* lines 656-697
buildCommand(q) ==
    LET r == buildMatchers(q.Matchers, <<>>) IN
    IF r.err # "nil" THEN [query |-> Nil, err |-> r.err]
    ELSE [query |-> Command(r.matchers \o <<BoundPredicate(">=", q.StartTimestampMs),
                                            BoundPredicate("<=", q.EndTimestampMs)>>),
          err |-> "nil"]

\* lines 276-317 (earlier revision)
buildCommandPrev(q) ==
    LET r == buildMatchersPrev(q.Matchers, <<>>) IN
    IF r.err # "nil" THEN [query |-> Nil, err |-> r.err]
    ELSE [query |-> Command(r.matchers \o <<BoundPredicate(">=", q.StartTimestampMs),
                                            BoundPredicate("<=", q.EndTimestampMs)>>),
          err |-> "nil"]

-----------------------------------------------------------------------------
(* The warehouse: how it reads the generated predicates *)

\* The text between the quotes of a '...' or r'...' literal, read by the
\* warehouse's lexer: a backslash takes the next character with it, an
\* unescaped ' ends the literal (so text after it is no longer inside), a
\* trailing backslash takes the closing quote.  ok = the literal ends where
\* the generated text meant it to end; value = the string it denotes.
RECURSIVE sqlLiteral(_, _, _)
sqlLiteral(body, raw, acc) ==
    IF body = <<>> THEN [ok |-> TRUE, value |-> acc]
    ELSE IF Head(body) = "'" THEN [ok |-> FALSE, value |-> acc]
    ELSE IF Head(body) = "\\"
         THEN IF Len(body) = 1 THEN [ok |-> FALSE, value |-> acc]
              ELSE IF raw THEN sqlLiteral(Tail(Tail(body)), raw, acc \o <<"\\", body[2]>>)
              ELSE IF body[2] \in {"'", "\"", "\\"}
                   THEN sqlLiteral(Tail(Tail(body)), raw, Append(acc, body[2]))
                   ELSE [ok |-> FALSE, value |-> acc]     \* illegal escape sequence
    ELSE sqlLiteral(Tail(body), raw, Append(acc, Head(body)))

IsRegexOp(op) == op \in {"REGEXP_CONTAINS", "not REGEXP_CONTAINS"}

IdentChars == {"_", "a", "b", "e", "l", "m", "n"}

\* '$.<key>': the key of a JSONPath; only identifier characters may follow $.
jsonPathKey(pathValue) ==
    IF /\ Len(pathValue) >= 3
       /\ pathValue[1] = "$"
       /\ pathValue[2] = "."
       /\ \A i \in 3 .. Len(pathValue) : pathValue[i] \in IdentChars
    THEN [ok |-> TRUE, key |-> SubSeq(pathValue, 3, Len(pathValue))]
    ELSE [ok |-> FALSE, key |-> <<>>]

\* whether the warehouse accepts the predicate text at all
predicateWellFormed(p) ==
    IF p.column = "timestamp" THEN TRUE
    ELSE /\ sqlLiteral(p.lit, IsRegexOp(p.op), <<>>).ok
         /\ p.column = "tags" =>
               /\ sqlLiteral(p.path, FALSE, <<>>).ok
               /\ jsonPathKey(sqlLiteral(p.path, FALSE, <<>>).value).ok

SqlNull == [null |-> TRUE, s |-> <<>>]

SqlString(s) == [null |-> FALSE, s |-> s]

\* JSON_EXTRACT(tags, '$.key'): the JSON text of the member, NULL when the
\* document is no object or has no such member
JSON_EXTRACT(tags, key) ==
    IF tags.kind = "object" /\ key \in DOMAIN tags.members
    THEN SqlString(tags.members[key]) ELSE SqlNull

IFNULL(x, default) == IF x.null THEN SqlString(default) ELSE x

\* the left-hand side of a predicate, for one row
columnValue(p, row) ==
    IF p.column = "metricname" THEN SqlString(row.metricname)
    ELSE LET x == JSON_EXTRACT(row.tags, jsonPathKey(sqlLiteral(p.path, FALSE, <<>>).value).key)
         IN IF p.ifnull THEN IFNULL(x, <<"\"", "\"">>) ELSE x

\* the characters a regular expression without operators matches literally
RECURSIVE regexLiteral(_)
regexLiteral(pat) ==
    IF pat = <<>> THEN <<>>
    ELSE IF Head(pat) = "\\" /\ Len(pat) >= 2 THEN <<pat[2]>> \o regexLiteral(Tail(Tail(pat)))
    ELSE <<Head(pat)>> \o regexLiteral(Tail(pat))

Contains(s, t) == \E i \in 0 .. (Len(s) - Len(t)) : SubSeq(s, i + 1, i + Len(t)) = t

SqlNot(b) == CASE b = "TRUE" -> "FALSE" [] b = "FALSE" -> "TRUE" [] OTHER -> b

SqlBool(b) == IF b THEN "TRUE" ELSE "FALSE"

\* the value of one predicate for one row: "TRUE", "FALSE", "NULL", or
\* "ERROR" when the warehouse rejects the text
evalPredicate(p, row) ==
    IF ~predicateWellFormed(p) THEN "ERROR"
    ELSE IF p.column = "timestamp"
         THEN IF p.op = ">=" THEN SqlBool(row.timestamp >= p.millis)
              ELSE SqlBool(row.timestamp <= p.millis)
    ELSE LET lhs == columnValue(p, row)
             rhs == sqlLiteral(p.lit, IsRegexOp(p.op), <<>>).value
         IN IF lhs.null THEN "NULL"
            ELSE CASE p.op = "="  -> SqlBool(lhs.s = rhs)
                   [] p.op = "!=" -> SqlBool(lhs.s # rhs)
                   [] p.op = "REGEXP_CONTAINS" -> SqlBool(Contains(lhs.s, regexLiteral(rhs)))
                   [] p.op = "not REGEXP_CONTAINS" ->
                          SqlNot(SqlBool(Contains(lhs.s, regexLiteral(rhs))))

\* a query whose text the warehouse rejects fails as a whole
commandWellFormed(command) ==
    \A i \in 1 .. Len(command.where) : predicateWellFormed(command.where[i])

\* WHERE p1 AND ... AND pn selects the rows for which every predicate is TRUE
rowSelected(command, row) ==
    \A i \in 1 .. Len(command.where) : evalPredicate(command.where[i], row) = "TRUE"

-----------------------------------------------------------------------------
(* Read path *)

\* json.Unmarshal into interface{}: an error for malformed text, otherwise
\* the decoded value
json_Unmarshal(doc) ==
    IF doc.kind = "malformed" THEN [err |-> "invalid character", v |-> Nil]
    ELSE [err |-> "nil", v |-> doc]

RECURSIVE SetToSeq(_)
SetToSeq(S) ==
    IF S = {} THEN <<>>
    ELSE LET x == CHOOSE y \in S : TRUE IN <<x>> \o SetToSeq(S \ {x})

\* faulty variant: the pairs stay in the order they were appended in
sortByName_AsAppended(pairs) == {pairs}

\* sort.Slice(labelPairs, by Name): every order the sort may leave the
\* pairs in (pairs of equal name may end either way round)
sortByName(pairs) ==
    {[i \in 1 .. Len(pairs) |-> pairs[f[i]]] : f \in
        {g \in Permutations(1 .. Len(pairs)) :
            \A i \in 1 .. Len(pairs) - 1 : ~StrLess(pairs[g[i + 1]].Name, pairs[g[i]].Name)}}

\* lines 732-757.  outcome "ok": the sample, the metric and the possible
\* label lists; "error": the json error; "panic": a failed type assertion
rowToSample(row) ==
    LET u == json_Unmarshal(row.tags) IN
    IF u.err # "nil" THEN [outcome |-> "error", err |-> u.err]
    ELSE IF u.v.kind # "object" THEN [outcome |-> "panic", err |-> "nil"]
    ELSE IF \E k \in DOMAIN u.v.members : ~IsJsonString(u.v.members[k])
         THEN [outcome |-> "panic", err |-> "nil"]
    ELSE LET labels == [k \in DOMAIN u.v.members |-> jsonStringValue(u.v.members[k])]
             names  == SetToSeq(DOMAIN labels)
             pairs  == [i \in 1 .. Len(names) |-> [Name |-> names[i], Value |-> labels[names[i]]]]
             all    == Append(pairs, [Name |-> MetricNameLabel, Value |-> row.metricname])
         IN [outcome |-> "ok", err |-> "nil",
             sample |-> [Timestamp |-> row.timestamp, Value |-> row.value],
             metric |-> MapPut(labels, MetricNameLabel, row.metricname),
             labelPairs |-> sortByName(all)]

\* faulty variant: a hash that does not tell label sets apart
Fingerprint_Constant(metric) == EmptyMap

\* model.Metric.Fingerprint: a hash of the label set, taken here as the
\* label set itself
Fingerprint(metric) == metric

\* faulty variant: the series of the fingerprint is created anew for each row
mergeSample_Overwrite(m, fp, labels, sample) ==
    MapPut(m, fp, [Labels |-> labels, Samples |-> <<sample>>])

\* faulty variant: a sample the series already holds is not added again
mergeSample_SkipDuplicate(m, fp, labels, sample) ==
    IF fp \in DOMAIN m
    THEN IF \E k \in 1 .. Len(m[fp].Samples) : m[fp].Samples[k] = sample
         THEN m
         ELSE [m EXCEPT ![fp].Samples = Append(@, sample)]
    ELSE MapPut(m, fp, [Labels |-> labels, Samples |-> <<sample>>])

\* faulty variant: the sample is put in front of the series' samples
mergeSample_Prepend(m, fp, labels, sample) ==
    IF fp \in DOMAIN m
    THEN [m EXCEPT ![fp].Samples = <<sample>> \o @]
    ELSE MapPut(m, fp, [Labels |-> labels, Samples |-> <<sample>>])

\* lines 719-725: the sample joins the series of its fingerprint, which is
\* created with the row's labels when it is the first
mergeSample(m, fp, labels, sample) ==
    IF fp \in DOMAIN m
    THEN [m EXCEPT ![fp].Samples = Append(@, sample)]
    ELSE MapPut(m, fp, [Labels |-> labels, Samples |-> <<sample>>])

\* the rows a well-formed query selects from the table, as a bag
selectedRows(command, tbl) ==
    [r \in {x \in DOMAIN tbl : rowSelected(command, x)} |-> tbl[r]]

\* ORDER BY timestamp: the next row is one of the earliest not yet delivered
nextRows(pending) ==
    {r \in DOMAIN pending : \A o \in DOMAIN pending : r.timestamp <= o.timestamp}

removeRow(pending, r) ==
    IF pending[r] > 1 THEN [pending EXCEPT ![r] = @ - 1]
    ELSE [x \in DOMAIN pending \ {r} |-> pending[x]]

\* faulty variant: the series merged so far are returned with the error
readFails_PartialResponse(err) ==
    /\ rpc' = "returned"
    /\ readErr' = err
    /\ resp' = [Results |-> <<[Timeseries |->
                    [i \in 1 .. Cardinality(DOMAIN tsMap) |-> tsMap[SetToSeq(DOMAIN tsMap)[i]]]]>>]

\* faulty variant: a failure sends the call back to the head of the loop,
\* where the same sub-query is taken again
readFails_Retry(err) ==
    /\ rpc' = "loop"
    /\ readErr' = readErr
    /\ resp' = resp

\* return nil, err (lines 622, 633, 637)
readFails(err) ==
    /\ rpc' = "returned"
    /\ readErr' = err
    /\ resp' = Nil

\* faulty variant: the fingerprint map outlives the call
ReadBegin_KeepMap(r) ==
    /\ rpc = "idle"
    /\ readCalls < MaxReads
    /\ readCalls' = readCalls + 1
    /\ rpc' = "loop"
    /\ req' = r
    /\ qi' = 1
    /\ tsMap' = tsMap
    /\ queryLog' = <<>>
    /\ delivered' = <<>>
    /\ UNCHANGED <<sqlQueryCount, iter, resp, readErr, lastCall, writeVars, cmdVars, tagVars, wr, srvVars, metricVars>>

\* line 618: a Read call starts with an empty fingerprint map
ReadBegin(r) ==
    /\ rpc = "idle"
    /\ readCalls < MaxReads
    /\ readCalls' = readCalls + 1
    /\ rpc' = "loop"
    /\ req' = r
    /\ qi' = 1
    /\ tsMap' = EmptyMap
    /\ queryLog' = <<>>
    /\ delivered' = <<>>
    /\ UNCHANGED <<sqlQueryCount, iter, resp, readErr, lastCall, writeVars, cmdVars, tagVars, wr, srvVars, metricVars>>

\* lines 619-634: the next sub-query is translated and its query issued
ReadQuery ==
    /\ rpc = "loop"
    /\ qi <= Len(req)
    /\ LET c == buildCommand(req[qi]) IN
       IF c.err # "nil"
       THEN /\ readFails(c.err)
            /\ UNCHANGED <<sqlQueryCount, iter, queryLog>>
       ELSE /\ sqlQueryCount' = sqlQueryCount + 1
            /\ queryLog' = Append(queryLog, qi)
            /\ \/ /\ commandWellFormed(c.query)
                  /\ iter' = [pending |-> selectedRows(c.query, table)]
                  /\ rpc' = "merge"
                  /\ UNCHANGED <<resp, readErr>>
               \/ /\ ~commandWellFormed(c.query)
                  /\ readFails("invalid query")
                  /\ UNCHANGED iter
               \/ /\ \E e \in {"query failed", "deadline"} : readFails(e)
                  /\ UNCHANGED iter
    /\ UNCHANGED <<req, qi, tsMap, delivered, readCalls, lastCall, writeVars, cmdVars, tagVars, wr, srvVars, metricVars>>

\* lines 704-726: one turn of the loop of mergeResult
MergeNext ==
    /\ rpc = "merge"
    /\ \/ \* iterator.Done: back to the loop of Read (lines 639-642)
          /\ DOMAIN iter.pending = {}
          /\ rpc' = "loop"
          /\ qi' = qi + 1
          /\ UNCHANGED <<iter, tsMap, resp, readErr, delivered>>
       \/ \* iter.Next fails
          /\ readFails("iterator failed")
          /\ UNCHANGED <<iter, tsMap, qi, delivered>>
       \/ \E row \in nextRows(iter.pending) :
             LET r == rowToSample(row) IN
             /\ iter' = [pending |-> removeRow(iter.pending, row)]
             /\ delivered' = Append(delivered, [row |-> row, q |-> qi])
             /\ qi' = qi
             /\ CASE r.outcome = "error" -> readFails(r.err) /\ UNCHANGED tsMap
                  [] r.outcome = "panic" ->
                        /\ rpc' = "panicked"
                        /\ UNCHANGED <<tsMap, resp, readErr>>
                  [] r.outcome = "ok" ->
                        /\ \E labels \in r.labelPairs :
                              tsMap' = mergeSample(tsMap, Fingerprint(r.metric), labels, r.sample)
                        /\ UNCHANGED <<rpc, resp, readErr>>
    /\ UNCHANGED <<sqlQueryCount, req, queryLog, readCalls, lastCall, writeVars, cmdVars, tagVars, wr, srvVars, metricVars>>

\* faulty variant: one result per sub-query
ReadReturn_ResultPerQuery ==
    /\ rpc = "loop"
    /\ qi > Len(req)
    /\ resp' = [Results |-> [k \in 1 .. Len(req) |-> [Timeseries |->
                    [i \in 1 .. Cardinality(DOMAIN tsMap) |-> tsMap[SetToSeq(DOMAIN tsMap)[i]]]]]]
    /\ rpc' = "returned"
    /\ readErr' = "nil"
    /\ UNCHANGED <<sqlQueryCount, req, qi, iter, tsMap, queryLog, delivered, readCalls,
                   lastCall, writeVars, cmdVars, tagVars, wr, srvVars, metricVars>>

\* lines 644-652: the response holds one result with the series of the map,
\* in the order the map happens to be ranged over
ReadReturn ==
    /\ rpc = "loop"
    /\ qi > Len(req)
    /\ \E order \in Permutations(1 .. Cardinality(DOMAIN tsMap)) :
          LET fps == SetToSeq(DOMAIN tsMap) IN
          resp' = [Results |-> <<[Timeseries |->
                      [i \in 1 .. Len(fps) |-> tsMap[fps[order[i]]]]]>>]
    /\ rpc' = "returned"
    /\ readErr' = "nil"
    /\ UNCHANGED <<sqlQueryCount, req, qi, iter, tsMap, queryLog, delivered, readCalls,
                   lastCall, writeVars, cmdVars, tagVars, wr, srvVars, metricVars>>

\* the caller (the read handler) takes what the call returned; the call's
\* locals are gone, and the client is ready for the next call
ReadDone ==
    /\ rpc \in {"returned", "panicked"}
    /\ lastCall' = [req |-> req, delivered |-> delivered, resp |-> resp,
                    readErr |-> readErr, panicked |-> rpc = "panicked"]
    /\ rpc' = "idle"
    /\ resp' = Nil
    /\ readErr' = "nil"
    /\ UNCHANGED <<sqlQueryCount, req, qi, iter, tsMap, queryLog, delivered, readCalls,
                   writeVars, cmdVars, tagVars, wr, srvVars, metricVars>>

-----------------------------------------------------------------------------
(* Inputs *)

Label(n, v) == [Name |-> n, Value |-> v]

Sample(t, v) == [Timestamp |-> t, Value |-> v]

\* the time series a write request is drawn from: finite and non-finite
\* values, timestamps on and off whole seconds, before and after the epoch
SeriesPool ==
    { [Labels  |-> <<Label(MetricNameLabel, <<"m">>), Label(<<"l">>, <<"a">>)>>,
       Samples |-> <<Sample(1000, "1"), Sample(1500, "2")>>],
      [Labels  |-> <<Label(MetricNameLabel, <<"n">>)>>,
       Samples |-> <<Sample(-1500, "3"), Sample(2000, "NaN")>>],
      [Labels  |-> <<Label(<<"l">>, <<"b">>), Label(MetricNameLabel, <<"m">>)>>,
       Samples |-> <<Sample(2000, "+Inf"), Sample(3000, "-Inf")>>] }

SeqsUpTo(S, n) == UNION {[1 .. k -> S] : k \in 0 .. n}

WriteRequests == SeqsUpTo(SeriesPool, MaxSeries)

LabelMatcher(t, n, v) == [Type |-> t, Name |-> n, Value |-> v]

Query(start, end, ms) == [StartTimestampMs |-> start, EndTimestampMs |-> end, Matchers |-> ms]

\* matchers of every supported kind and of an unsupported one, on the metric
\* name and on labels, with values that hold the characters of the literals
MatcherTypes == SupportedTypes \cup {"UNKNOWN"}

MatcherNames == {MetricNameLabel, <<"l">>, <<"'">>}

MatcherValues == {<<>>, <<"a">>, <<"'">>, <<"\\">>, <<"/">>}

MatcherPool == {LabelMatcher(t, n, v) : t \in MatcherTypes, n \in MatcherNames, v \in MatcherValues}

DrawnQueries == {Query(1000, 2000, ms) : ms \in SeqsUpTo(MatcherPool, MaxMatchers)}

Row(name, tags, ts, v) == [metricname |-> name, tags |-> tags, timestamp |-> ts, value |-> v]

\* the sub-queries a read request is drawn from
QueryPool ==
    {Query(0, 3000, <<LabelMatcher("EQ", MetricNameLabel, <<"m">>)>>),
     Query(0, 3000, <<LabelMatcher("EQ", MetricNameLabel, <<"n">>)>>),
     Query(1000, 2000, <<>>),
     Query(0, 3000, <<LabelMatcher("EQ", <<"l">>, <<"a">>),
                      LabelMatcher("UNKNOWN", <<"l">>, <<"a">>)>>)}

ReadRequests == SeqsUpTo(QueryPool, MaxQueries)

\* rows a table may hold before the client writes: rows of two series, a row
\* whose tags are no JSON, a row whose tags are JSON but no object
RowPool ==
    {Row(<<"m">>, json_Marshal([k \in {<<"l">>} |-> <<"a">>]), 1000, "1"),
     Row(<<"m">>, json_Marshal([k \in {<<"l">>} |-> <<"a">>]), 2000, "2"),
     Row(<<"n">>, json_Marshal(EmptyMap), 1000, "3"),
     Row(<<"m">>, [kind |-> "malformed", members |-> EmptyMap], 1500, "4"),
     Row(<<"n">>, [kind |-> "array", members |-> EmptyMap], 2500, "5")}

TablePool == {SetToBag(S) : S \in SUBSET RowPool}

\* tables and requests of the repeated Read calls: two series at equal and at
\* different timestamps, with and without a row whose tags are no JSON
RepeatTables ==
    {SetToBag({Row(<<"m">>, json_Marshal([k \in {<<"l">>} |-> <<"a">>]), 1000, "1"),
               Row(<<"m">>, json_Marshal([k \in {<<"l">>} |-> <<"a">>]), 2000, "2"),
               Row(<<"n">>, json_Marshal(EmptyMap), 1000, "3")}),
     SetToBag({Row(<<"m">>, json_Marshal([k \in {<<"l">>} |-> <<"a">>]), 1000, "1"),
               Row(<<"n">>, json_Marshal(EmptyMap), 1000, "3"),
               Row(<<"m">>, [kind |-> "malformed", members |-> EmptyMap], 1500, "4")})}

RepeatRequests ==
    {<<>>,
     <<Query(1000, 2000, <<>>)>>,
     <<Query(0, 3000, <<LabelMatcher("EQ", MetricNameLabel, <<"m">>)>>),
       Query(0, 3000, <<LabelMatcher("EQ", MetricNameLabel, <<"n">>)>>)>>,
     <<Query(0, 3000, <<LabelMatcher("EQ", MetricNameLabel, <<"n">>)>>),
       Query(1000, 2000, <<>>)>>}

\* write requests of the concurrent invocations: series with finite and
\* non-finite samples, one and two series
ConcurrentRequests ==
    {<<[Labels  |-> <<Label(MetricNameLabel, <<"n">>)>>,
        Samples |-> <<Sample(1000, "3"), Sample(2000, "NaN")>>]>>,
     <<[Labels  |-> <<Label(MetricNameLabel, <<"m">>), Label(<<"l">>, <<"a">>)>>,
        Samples |-> <<Sample(1000, "1")>>],
       [Labels  |-> <<Label(MetricNameLabel, <<"m">>), Label(<<"l">>, <<"b">>)>>,
        Samples |-> <<Sample(2000, "+Inf"), Sample(3000, "-Inf")>>]>>}

\* label lists tagsFromMetric is applied to: with and without the metric
\* name, with no, one and two other labels, with values that are empty or
\* hold the characters JSON escapes
TagValues == {<<>>, <<"a">>, <<"\"">>, <<"\\">>, <<"a", "\"", "b">>}

OptionalLabel(n) == {<<>>} \cup {<<Label(n, v)>> : v \in TagValues}

LabelLists ==
    {a \o b \o c : a \in OptionalLabel(MetricNameLabel), b \in OptionalLabel(<<"l">>),
                   c \in OptionalLabel(<<"b">>)}

\* stored rows the generated predicates are evaluated on
EvalRows ==
    {Row(<<"m">>, json_Marshal(EmptyMap), 1000, "1"),
     Row(<<"m">>, json_Marshal([k \in {<<"l">>} |-> <<"a">>]), 1000, "1"),
     Row(<<"n">>, json_Marshal([k \in {<<"l">>} |-> <<>>]), 2000, "2"),
     Row(<<"a">>, json_Marshal([k \in {<<"l">>} |-> <<"a">>]), 2000, "3"),
     Row(<<"a">>, json_Marshal(EmptyMap), 3000, "4"),
     Row(<<"/">>, json_Marshal(EmptyMap), 999, "5")}

-----------------------------------------------------------------------------
(* serve: the HTTP server, the /write handler, sendSamples, the shutdown *)

MaxRequests == 2    \* /write requests per behaviour

Requests == 1 .. MaxRequests

\* buildClients returns one writer, the BigQuery client
buildClients == <<"bigquery">>

\* the lists of writers serve is run with
WriterLists == {buildClients, <<"bigquery", "standby">>}

StorageNames == {"bigquery", "standby"}

\* the bodies of the /write requests: one that cannot be read, one that is
\* not snappy, one that is no WriteRequest, and a well-formed one holding
\* two series of three samples in all
RequestBodies ==
    {[kind |-> k, Timeseries |-> <<>>] : k \in {"unreadable", "notSnappy", "notProto"}}
    \cup {[kind |-> "ok", Timeseries |-> tss] : tss \in {t \in ConcurrentRequests : Len(t) = 2}}

\* a request that has not arrived.  pc: "none", "decode" at the head of the
\* handler, "wait" at wg.Wait, "done" when the handler has returned;
\* status: the status code written, 0 while none is; errorBody: http.Error
\* wrote a message; go: writer index -> the goroutine started for it;
\* atShutdown (history): the request was in flight when Shutdown was called
NoRequest == [pc |-> "none", kind |-> "none", Timeseries |-> <<>>, status |-> 0,
              errorBody |-> FALSE, go |-> <<>>, atShutdown |-> FALSE]

\* lines 308-315: one goroutine per writer, each handed the writer and
\* req.Timeseries.  pc: "spawned", "write" inside w.Write, "done" after
\* wg.Done; calls, arg (history): the Write calls made and their argument
spawnWriters(ws, tss) ==
    [w \in 1 .. Len(ws) |-> [pc |-> "spawned", name |-> ws[w], timeseries |-> tss,
                             calls |-> 0, arg |-> <<>>, err |-> "nil"]]

\* faulty variant: the handler does not wait for the goroutines
wgWait_NoWait(g) == TRUE

\* line 316, wg.Wait: every goroutine has called wg.Done
wgWait(g) == \A w \in DOMAIN g : g[w].pc = "done"

\* faulty variant: a failed Write is answered with an error status
statusAfterWrites_ErrorOnFailure(g) ==
    IF \E w \in DOMAIN g : g[w].err # "nil" THEN 500 ELSE 0

\* lines 316-322: what the handler writes to the response after the
\* writers have returned: nothing
statusAfterWrites(g) == 0

\* net/http: a handler that returns without having written a status has
\* answered 200
implicitStatus(status) == IF status = 0 THEN 200 ELSE status

\* faulty variant: the samples are counted as sent whatever Write returned
sendSamplesUpdate_AlwaysSent(err, n) ==
    [sent |-> n, failed |-> IF err # "nil" THEN n ELSE 0,
     errors |-> IF err # "nil" THEN 1 ELSE 0, batches |-> IF err # "nil" THEN 0 ELSE 1,
     warns |-> IF err # "nil" THEN 1 ELSE 0]

\* lines 404-412: what sendSamples adds to the metrics and the log for the
\* error Write returned and n = len(timeseries)
sendSamplesUpdate(err, n) ==
    IF err # "nil"
    THEN [sent |-> 0, failed |-> n, errors |-> 1, batches |-> 0, warns |-> 1]
    ELSE [sent |-> n, failed |-> 0, errors |-> 0, batches |-> 1, warns |-> 0]

\* faulty variant: serve does not wait for the channel
idleWait_Skip == TRUE

\* line 397, <-idleConnectionClosed: the receive returns once the channel is
\* closed
idleWait == idleConnectionClosed

InFlight == {r \in Requests : handlers[r].pc \in {"decode", "wait"}}

\* line 392: srv.ListenAndServe is called.  On a server already shut down
\* it returns ErrServerClosed at once; otherwise it listens, or fails
ServeListen ==
    /\ process = "running"
    /\ servePc = "listen"
    /\ IF inShutdown
       THEN servePc' = "idleWait"
       ELSE servePc' \in {"serving", "failed"}
    /\ UNCHANGED <<writers, sigPc, oscall, inShutdown, idleConnectionClosed, process, handlers,
                   metricVars, writeVars, readVars, cmdVars, tagVars, wr>>

\* line 392: ListenAndServe returns while serving: ErrServerClosed once
\* Shutdown has been called, another error when accepting fails
ServeListenReturns ==
    /\ process = "running"
    /\ servePc = "serving"
    /\ servePc' = IF inShutdown THEN "idleWait" ELSE "failed"
    /\ UNCHANGED <<writers, sigPc, oscall, inShutdown, idleConnectionClosed, process, handlers,
                   metricVars, writeVars, readVars, cmdVars, tagVars, wr>>

\* lines 392-395: any error but ErrServerClosed is logged and ends the
\* process
ServeExit ==
    /\ process = "running"
    /\ servePc = "failed"
    /\ process' = "exit1"
    /\ UNCHANGED <<writers, servePc, sigPc, oscall, inShutdown, idleConnectionClosed, handlers,
                   metricVars, writeVars, readVars, cmdVars, tagVars, wr>>

\* lines 397-398: the receive from idleConnectionClosed, and the return
ServeReturn ==
    /\ process = "running"
    /\ servePc = "idleWait"
    /\ idleWait
    /\ servePc' = "returned"
    /\ UNCHANGED <<writers, sigPc, oscall, inShutdown, idleConnectionClosed, process, handlers,
                   metricVars, writeVars, readVars, cmdVars, tagVars, wr>>

\* main returns after serve has (line 166): the process ends with code 0
MainReturn ==
    /\ process = "running"
    /\ servePc = "returned"
    /\ process' = "exit0"
    /\ UNCHANGED <<writers, servePc, sigPc, oscall, inShutdown, idleConnectionClosed, handlers,
                   metricVars, writeVars, readVars, cmdVars, tagVars, wr>>

\* lines 268-273: a signal is taken from sigChan and srv.Shutdown is called,
\* which stops the listeners at once
Signal(s) ==
    /\ process = "running"
    /\ sigPc = "wait"
    /\ oscall' = s
    /\ sigPc' = "shutdown"
    /\ inShutdown' = TRUE
    /\ handlers' = [r \in Requests |->
                       [handlers[r] EXCEPT !.atShutdown = (r \in InFlight)]]
    /\ UNCHANGED <<writers, servePc, idleConnectionClosed, process,
                   metricVars, writeVars, readVars, cmdVars, tagVars, wr>>

\* lines 273-278: Shutdown returns when no request is in flight any more,
\* with nil or with the error of closing the listeners; after nil the
\* channel is closed
ShutdownReturns ==
    /\ process = "running"
    /\ sigPc = "shutdown"
    /\ InFlight = {}
    /\ \/ /\ sigPc' = "done"
          /\ idleConnectionClosed' = TRUE
       \/ /\ sigPc' = "failed"
          /\ UNCHANGED idleConnectionClosed
    /\ UNCHANGED <<writers, servePc, oscall, inShutdown, process, handlers,
                   metricVars, writeVars, readVars, cmdVars, tagVars, wr>>

\* lines 274-275: the error of Shutdown is logged and ends the process
SignalExit ==
    /\ process = "running"
    /\ sigPc = "failed"
    /\ process' = "exit1"
    /\ UNCHANGED <<writers, servePc, sigPc, oscall, inShutdown, idleConnectionClosed, handlers,
                   metricVars, writeVars, readVars, cmdVars, tagVars, wr>>

\* a /write request reaches the listening server: its handler starts
Arrive(r, body) ==
    /\ process = "running"
    /\ servePc = "serving"
    /\ ~inShutdown
    /\ handlers[r].pc = "none"
    /\ \A q \in Requests : q < r => handlers[q].pc # "none"
    /\ handlers' = [handlers EXCEPT ![r] = [NoRequest EXCEPT !.pc = "decode",
                                               !.kind = body.kind,
                                               !.Timeseries = body.Timeseries]]
    /\ UNCHANGED <<writers, servePc, sigPc, oscall, inShutdown, idleConnectionClosed, process,
                   metricVars, writeVars, readVars, cmdVars, tagVars, wr>>

\* lines 284-315: the body is read, decompressed and decoded; a failure is
\* answered and counted, otherwise the goroutines are started
HandleDecode(r) ==
    /\ process = "running"
    /\ handlers[r].pc = "decode"
    /\ IF handlers[r].kind # "ok"
       THEN /\ handlers' = [handlers EXCEPT ![r].pc = "done",
                               ![r].status = IF handlers[r].kind = "unreadable" THEN 500 ELSE 400,
                               ![r].errorBody = TRUE]
            /\ writeErrors' = writeErrors + 1
       ELSE /\ handlers' = [handlers EXCEPT ![r].pc = "wait",
                               ![r].go = spawnWriters(writers, handlers[r].Timeseries)]
            /\ UNCHANGED writeErrors
    /\ UNCHANGED <<writers, servePc, sigPc, oscall, inShutdown, idleConnectionClosed, process,
                   sentSamples, failedSamples, sentBatchDuration, writeProcessingDuration,
                   warnings, writeVars, readVars, cmdVars, tagVars, wr>>

\* lines 400-402: the goroutine of writer w runs sendSamples, which calls
\* w.Write(timeseries)
SendSamplesCall(r, w) ==
    /\ process = "running"
    /\ handlers[r].pc \in {"wait", "done"}
    /\ w \in DOMAIN handlers[r].go
    /\ handlers[r].go[w].pc = "spawned"
    /\ handlers' = [handlers EXCEPT ![r].go[w].pc = "write",
                                    ![r].go[w].calls = @ + 1,
                                    ![r].go[w].arg = handlers[r].go[w].timeseries]
    /\ UNCHANGED <<writers, servePc, sigPc, oscall, inShutdown, idleConnectionClosed, process,
                   metricVars, writeVars, readVars, cmdVars, tagVars, wr>>

\* lines 402-413 and 313: Write returns err, sendSamples updates the metrics,
\* the goroutine calls wg.Done
SendSamplesReturn(r, w, err) ==
    /\ process = "running"
    /\ handlers[r].pc \in {"wait", "done"}
    /\ w \in DOMAIN handlers[r].go
    /\ handlers[r].go[w].pc = "write"
    /\ LET g == handlers[r].go[w]
           u == sendSamplesUpdate(err, Len(g.timeseries))
       IN /\ sentSamples' = [sentSamples EXCEPT ![g.name] = @ + u.sent]
          /\ failedSamples' = [failedSamples EXCEPT ![g.name] = @ + u.failed]
          /\ sentBatchDuration' = [sentBatchDuration EXCEPT ![g.name] = @ + u.batches]
          /\ writeErrors' = writeErrors + u.errors
          /\ warnings' = warnings + u.warns
    /\ handlers' = [handlers EXCEPT ![r].go[w].pc = "done", ![r].go[w].err = err]
    /\ UNCHANGED <<writers, servePc, sigPc, oscall, inShutdown, idleConnectionClosed, process,
                   writeProcessingDuration, writeVars, readVars, cmdVars, tagVars, wr>>

\* lines 316-322: wg.Wait returns, the duration is observed and the handler
\* returns
HandleFinish(r) ==
    /\ process = "running"
    /\ handlers[r].pc = "wait"
    /\ wgWait(handlers[r].go)
    /\ writeProcessingDuration' = writeProcessingDuration + 1
    /\ handlers' = [handlers EXCEPT ![r].pc = "done",
                       ![r].status = implicitStatus(statusAfterWrites(handlers[r].go)),
                       ![r].errorBody = statusAfterWrites(handlers[r].go) # 0]
    /\ UNCHANGED <<writers, servePc, sigPc, oscall, inShutdown, idleConnectionClosed, process,
                   sentSamples, failedSamples, sentBatchDuration, writeErrors,
                   warnings, writeVars, readVars, cmdVars, tagVars, wr>>

-----------------------------------------------------------------------------
(* Specifications *)

InitClient(tbl, q, ls) ==
    /\ ignoredSamples = 0
    /\ recordsFetched = 0
    /\ batchWriteDuration = 0
    /\ sqlQueryCount = 0
    /\ table = tbl
    /\ writes = 0
    /\ timeseries = <<>>
    /\ puts = <<>>
    /\ writeErr = "nil"
    /\ nonFinite = 0
    /\ rpc = "idle"
    /\ req = <<>>
    /\ qi = 0
    /\ iter = Nil
    /\ tsMap = EmptyMap
    /\ resp = Nil
    /\ readErr = "nil"
    /\ queryLog = <<>>
    /\ delivered = <<>>
    /\ readCalls = 0
    /\ lastCall = Nil
    /\ cq = q
    /\ cmd = Nil
    /\ cmdPrev = Nil
    /\ tmSeries = ls
    /\ tmTags = Nil
    /\ tmBack = Nil
    /\ wr = [w \in Writers |-> IdleWriter]

\* serve as main calls it, with the writers buildClients returns, before any
\* of its goroutines has taken a step; the metrics as registered
InitServer(ws) ==
    /\ writers = ws
    /\ servePc = "listen"
    /\ sigPc = "wait"
    /\ oscall = "none"
    /\ inShutdown = FALSE
    /\ idleConnectionClosed = FALSE
    /\ process = "running"
    /\ handlers = [r \in Requests |-> NoRequest]
    /\ sentSamples = [n \in StorageNames |-> 0]
    /\ failedSamples = [n \in StorageNames |-> 0]
    /\ sentBatchDuration = [n \in StorageNames |-> 0]
    /\ writeErrors = 0
    /\ writeProcessingDuration = 0
    /\ warnings = 0

InitAll(tbl, q, ls) == InitClient(tbl, q, ls) /\ InitServer(buildClients)

InitWith(tbl, q) == InitAll(tbl, q, Nil)

\* the client after NewClient, on an empty table
Init == InitWith(EmptyBag, Nil)

WriteStep == \E tss \in WriteRequests : Write(tss)

\* the write path alone
NextWrite == WriteStep

SpecWrite == Init /\ [][NextWrite]_vars

ReadStep ==
    \/ \E r \in ReadRequests : ReadBegin(r)
    \/ ReadQuery
    \/ MergeNext
    \/ ReadReturn

\* the read path alone, on a table drawn from TablePool
InitRead == \E tbl \in TablePool : InitWith(tbl, Nil)

NextRead == ReadStep

SpecRead == InitRead /\ [][NextRead]_vars

\* Read calls one after another on the same client and the same table
InitRepeat == \E tbl \in RepeatTables : InitWith(tbl, Nil)

NextRepeat ==
    \/ \E r \in RepeatRequests : ReadBegin(r)
    \/ ReadQuery
    \/ MergeNext
    \/ ReadReturn
    \/ ReadDone

SpecRepeat == InitRepeat /\ [][NextRepeat]_vars

\* write calls, then one read call, on a table that starts empty
Next ==
    \/ rpc = "idle" /\ WriteStep
    \/ ReadStep

Spec == Init /\ [][Next]_vars

\* buildCommand applied to a drawn query
InitCmd == \E q \in DrawnQueries : InitWith(EmptyBag, q)

ApplyBuildCommand ==
    /\ cq # Nil
    /\ cmd = Nil
    /\ cmd' = buildCommand(cq)
    /\ UNCHANGED <<writeVars, readVars, cq, cmdPrev, tagVars, wr, srvVars, metricVars>>

ApplyBuildCommandPrev ==
    /\ cq # Nil
    /\ cmdPrev = Nil
    /\ cmdPrev' = buildCommandPrev(cq)
    /\ UNCHANGED <<writeVars, readVars, cq, cmd, tagVars, wr, srvVars, metricVars>>

NextCmd == ApplyBuildCommand \/ ApplyBuildCommandPrev

SpecCmd == InitCmd /\ [][NextCmd]_vars

\* Write invocations of concurrent HTTP requests on one client
NextConcurrent ==
    \E w \in Writers :
       \/ \E tss \in ConcurrentRequests : WriteCall(w, tss)
       \/ WriteSeries(w)
       \/ WriteSample(w)
       \/ WritePut(w)

SpecConcurrent == Init /\ [][NextConcurrent]_vars

\* tagsFromMetric applied to a drawn label list, and rowToSample applied to
\* the row Write stores for it
InitTags == \E ls \in LabelLists : InitAll(EmptyBag, Nil, [Labels |-> ls])

ApplyTagsFromMetric ==
    /\ tmSeries # Nil
    /\ tmTags = Nil
    /\ tmTags' = tagsFromMetric(metricOfLabels(tmSeries.Labels, EmptyMap))
    /\ UNCHANGED <<writeVars, readVars, cmdVars, tmSeries, tmBack, wr, srvVars, metricVars>>

ApplyRowToSample ==
    /\ tmTags # Nil
    /\ tmBack = Nil
    /\ tmBack' = rowToSample(Row(MapGet(metricOfLabels(tmSeries.Labels, EmptyMap), MetricNameLabel),
                                 tmTags, 1000, "1"))
    /\ UNCHANGED <<writeVars, readVars, cmdVars, tmSeries, tmTags, wr, srvVars, metricVars>>

NextTags == ApplyTagsFromMetric \/ ApplyRowToSample

SpecTags == InitTags /\ [][NextTags]_vars

\* serve run with one or two writers
InitServe == \E ws \in WriterLists : InitClient(EmptyBag, Nil, Nil) /\ InitServer(ws)

NextServe ==
    \/ ServeListen
    \/ ServeListenReturns
    \/ ServeExit
    \/ ServeReturn
    \/ MainReturn
    \/ \E s \in {"SIGTERM", "interrupt"} : Signal(s)
    \/ ShutdownReturns
    \/ SignalExit
    \/ \E r \in Requests :
          \/ \E body \in RequestBodies : Arrive(r, body)
          \/ HandleDecode(r)
          \/ HandleFinish(r)
          \/ \E w \in 1 .. Len(writers) :
                \/ SendSamplesCall(r, w)
                \/ \E err \in {"nil", "error"} : SendSamplesReturn(r, w, err)

SpecServe == InitServe /\ [][NextServe]_vars

-----------------------------------------------------------------------------
(* Claims about the write path *)

RECURSIVE AllSamples(_)
AllSamples(tss) == IF tss = <<>> THEN <<>> ELSE Head(tss).Samples \o AllSamples(Tail(tss))

IsFiniteSample(s) == s.Value \notin {"NaN", "+Inf", "-Inf"}

\* the finite samples of the last write request, in submission order
FiniteSubmitted == SelectSeq(AllSamples(timeseries), IsFiniteSample)

RECURSIVE ConcatRows(_)
ConcatRows(ps) == IF ps = <<>> THEN <<>> ELSE Head(ps).rows \o ConcatRows(Tail(ps))

\* every record the last Write call handed to the warehouse
Inserted == ConcatRows(puts)

\* C1: a NaN, +Inf or -Inf sample is left out of the insertion batch and
\* counted once in the ignored-samples counter; every finite sample gives
\* exactly one record, in order; after any sequence of Write calls the
\* counter equals the number of non-finite samples submitted so far.
C1_NonFiniteSkippedAndCounted ==
    /\ ignoredSamples = nonFinite
    /\ writes > 0 =>
          /\ Len(Inserted) = Len(FiniteSubmitted)
          /\ \A k \in 1 .. Len(Inserted) : Inserted[k].value = FiniteSubmitted[k].Value

C1_Witness ==
    /\ writes >= 2
    /\ ignoredSamples >= 3
    /\ Len(Inserted) >= 1
    /\ \E p \in NonFinitePositions(timeseries) : timeseries[p[1]].Samples[p[2]].Value = "NaN"
    /\ \E p \in NonFinitePositions(timeseries) : timeseries[p[1]].Samples[p[2]].Value = "-Inf"

\* C3 (as claimed): the record of every finite sample carries the submitted
\* timestamp, in milliseconds since the epoch.
C3_RecordTimestampIsSubmittedMillis ==
    writes > 0 =>
        \A k \in 1 .. Len(Inserted) :
            k <= Len(FiniteSubmitted) => Inserted[k].timestamp = FiniteSubmitted[k].Timestamp

\* C7: each Write call makes exactly one insertion call, whose batch holds
\* the records of all input series together (an empty batch when there is
\* no series or every sample was skipped).
C7_OneInsertionCallPerWrite ==
    writes > 0 =>
        /\ Len(puts) = 1
        /\ Len(puts[1].rows) = Len(FiniteSubmitted)

C7_Witness ==
    /\ writes > 0
    /\ Len(timeseries) = 2
    /\ \A i \in 1 .. 2 : \E j \in 1 .. Len(timeseries[i].Samples) :
           IsFiniteSample(timeseries[i].Samples[j])
    /\ Len(puts) = 1
    /\ Len(puts[1].rows) >= 2

\* C8: Write returns a non-nil error exactly when its insertion call failed
\* (full failure, PutMultiError, deadline exceeded), after that single
\* attempt; it returns nil when the insertion call succeeded.
C8_WriteReturnsInsertionError ==
    writes > 0 =>
        /\ Len(puts) = 1
        /\ writeErr = puts[1].err

C8_Witness ==
    /\ writes > 0
    /\ writeErr = "PutMultiError"
    /\ Len(puts) = 1
    /\ Len(puts[1].rows) >= 2

-----------------------------------------------------------------------------
(* Claims about buildCommand *)

IsLabelMatcher(m) == m.Name # MetricNameLabel

\* in the output `out` of a revision, the predicate of every label NEQ
\* matcher is TRUE exactly where the predicate of the label EQ matcher of the
\* same name and value is FALSE
NotEqualNegatesEqual(out) ==
    (out # Nil /\ out.err = "nil") =>
        \A i, j \in 1 .. Len(cq.Matchers) :
            ( /\ IsLabelMatcher(cq.Matchers[i])
              /\ cq.Matchers[i].Type = "EQ"
              /\ cq.Matchers[j] = [cq.Matchers[i] EXCEPT !.Type = "NEQ"] )
            => \A row \in EvalRows :
                   (evalPredicate(out.query.where[j], row) = "TRUE")
                       <=> (evalPredicate(out.query.where[i], row) = "FALSE")

\* C4 (as claimed): in each revision of buildCommand, label not-equal
\* negates label equal on every stored row.
C4_LabelNotEqualNegatesEqual ==
    NotEqualNegatesEqual(cmd) /\ NotEqualNegatesEqual(cmdPrev)

\* a label name made of identifier characters
IsIdentifier(name) == name # <<>> /\ \A i \in 1 .. Len(name) : name[i] \in IdentChars

\* C5 (as claimed): on a row whose tags have no key L, the predicate for
\* (L = v) holds exactly when v is empty, and the one for (L != v) holds
\* exactly when v is not empty.
C5_AbsentLabelIsEmptyString ==
    (cmd # Nil /\ cmd.err = "nil") =>
        \A i \in 1 .. Len(cq.Matchers) :
            LET m == cq.Matchers[i] IN
            (IsLabelMatcher(m) /\ IsIdentifier(m.Name) /\ m.Type \in {"EQ", "NEQ"}) =>
                \A row \in EvalRows :
                    m.Name \notin DOMAIN row.tags.members =>
                        evalPredicate(cmd.query.where[i], row)
                            = SqlBool((m.Type = "EQ") <=> (m.Value = <<>>))

\* C6 (as claimed): every literal buildCommand writes from a matcher name or
\* value ends where the generated text closes it: no character of the name
\* or value ends the literal early.
C6_LiteralsEscaped ==
    (cmd # Nil /\ cmd.err = "nil") =>
        \A i \in 1 .. Len(cq.Matchers) :
            LET p == cmd.query.where[i] IN
            /\ sqlLiteral(p.lit, IsRegexOp(p.op), <<>>).ok
            /\ p.column = "tags" => sqlLiteral(p.path, FALSE, <<>>).ok

-----------------------------------------------------------------------------
(* Claims about the read path *)

\* C2 (as claimed): a series of finite samples written into an empty table
\* and read back with the matcher __name__ = <its metric name>, over a
\* window that contains every sample timestamp, comes back as exactly one
\* series with the same labels (sorted by name) and the same samples in the
\* same order.
C2_WriteReadRoundTrip ==
    ( /\ writes = 1
      /\ writeErr = "nil"
      /\ Len(timeseries) = 1
      /\ \A j \in 1 .. Len(timeseries[1].Samples) :
            /\ IsFiniteSample(timeseries[1].Samples[j])
            /\ req # <<>> =>
                  /\ req[1].StartTimestampMs <= timeseries[1].Samples[j].Timestamp
                  /\ timeseries[1].Samples[j].Timestamp <= req[1].EndTimestampMs
      /\ rpc = "returned"
      /\ readErr = "nil"
      /\ Len(req) = 1
      /\ req[1].Matchers =
            <<LabelMatcher("EQ", MetricNameLabel,
                           MapGet(metricOfLabels(timeseries[1].Labels, EmptyMap),
                                  MetricNameLabel))>> )
    => /\ Len(resp.Results) = 1
       /\ Len(resp.Results[1].Timeseries) = 1
       /\ resp.Results[1].Timeseries[1].Labels \in sortByName(timeseries[1].Labels)
       /\ resp.Results[1].Timeseries[1].Samples = timeseries[1].Samples

HasUnsupportedMatcher(q) ==
    \E i \in 1 .. Len(q.Matchers) : q.Matchers[i].Type \notin SupportedTypes

UnsupportedQueries == {k \in 1 .. Len(req) : HasUnsupportedMatcher(req[k])}

FirstUnsupported == CHOOSE k \in UnsupportedQueries : \A o \in UnsupportedQueries : k <= o

\* C9 (as claimed): when any sub-query has a matcher of an unsupported kind,
\* Read returns the unknown-match-type error and a nil response, whatever the
\* other matchers and sub-queries would have produced.
C9_ReadReturnsUnknownMatchType ==
    (rpc = "returned" /\ UnsupportedQueries # {}) =>
        /\ readErr = UnknownMatchType
        /\ resp = Nil

\* C9 (amended): when any sub-query has a matcher of an unsupported kind,
\* Read never delivers a response and never issues the query of that
\* sub-query or of a later one; it returns the unknown-match-type error when
\* it reaches that sub-query, and the error of an earlier sub-query when one
\* failed first.
C9_UnsupportedMatcherAbortsRead ==
    (rpc # "idle" /\ UnsupportedQueries # {}) =>
        /\ resp = Nil
        /\ \A i \in 1 .. Len(queryLog) : queryLog[i] < FirstUnsupported
        /\ qi <= FirstUnsupported
        /\ rpc = "returned" =>
              /\ readErr # "nil"
              /\ qi = FirstUnsupported => readErr = UnknownMatchType

C9_Witness ==
    /\ rpc = "returned"
    /\ readErr = UnknownMatchType
    /\ qi = 2
    /\ DOMAIN tsMap # {}
    /\ ~HasUnsupportedMatcher(req[1])

\* the rows the sub-queries of the request select from the table
RowsOfRequest ==
    UNION {LET c == buildCommand(req[k]) IN
           IF c.err = "nil" /\ commandWellFormed(c.query)
           THEN DOMAIN selectedRows(c.query, table) ELSE {}
           : k \in 1 .. Len(req)}

\* C10: a Read that fails returns an error and no response, also when rows
\* were merged before the failure; a response is delivered only by a call
\* without error, none of whose rows had malformed tags.
C10_NoPartialResults ==
    /\ (rpc = "returned" /\ readErr # "nil") => resp = Nil
    /\ resp # Nil =>
          /\ rpc = "returned"
          /\ readErr = "nil"
          /\ \A row \in RowsOfRequest : row.tags.kind # "malformed"

C10_Witness ==
    /\ rpc = "returned"
    /\ readErr = "invalid character"
    /\ resp = Nil
    /\ DOMAIN tsMap # {}

-----------------------------------------------------------------------------
(* Claims about the merge *)

LabelSetOf(labels) == {labels[i] : i \in 1 .. Len(labels)}

\* the rows of the current call that were merged, as positions of delivered
MergedRows == {i \in 1 .. Len(delivered) : rowToSample(delivered[i].row).outcome = "ok"}

\* the label set a row reconstructs to: its tags plus its metric name
RowLabelSet(row) == LabelSetOf(CHOOSE l \in rowToSample(row).labelPairs : TRUE)

RowSample(row) == [Timestamp |-> row.timestamp, Value |-> row.value]

\* the samples of the merged rows that reconstruct to label set S, in the
\* order the rows were handed over
RECURSIVE SamplesFor(_, _)
SamplesFor(S, n) ==
    IF n = 0 THEN <<>>
    ELSE IF n \in MergedRows /\ RowLabelSet(delivered[n].row) = S
         THEN Append(SamplesFor(S, n - 1), RowSample(delivered[n].row))
         ELSE SamplesFor(S, n - 1)

SeriesWithLabels(S) == {fp \in DOMAIN tsMap : LabelSetOf(tsMap[fp].Labels) = S}

Occurrences(seq, x) == Cardinality({i \in 1 .. Len(seq) : seq[i] = x})

ReturnedSeries == resp.Results[1].Timeseries

\* C11: within one Read call the rows of one label set all go to one series,
\* whichever sub-query returned them: there is exactly one series with that
\* label set, it holds the sample of each of those rows, and the returned
\* list holds no two series with equal label sets.
C11_SameLabelSetOneSeries ==
    /\ \A i \in MergedRows :
          LET S == RowLabelSet(delivered[i].row) IN
          /\ Cardinality(SeriesWithLabels(S)) = 1
          /\ \A fp \in SeriesWithLabels(S) :
                Occurrences(tsMap[fp].Samples, RowSample(delivered[i].row))
                    = Occurrences(SamplesFor(S, Len(delivered)), RowSample(delivered[i].row))
    /\ resp # Nil =>
          /\ \A a, b \in 1 .. Len(ReturnedSeries) :
                LabelSetOf(ReturnedSeries[a].Labels) = LabelSetOf(ReturnedSeries[b].Labels)
                    => a = b
          /\ {ReturnedSeries[a] : a \in 1 .. Len(ReturnedSeries)}
                = {tsMap[fp] : fp \in DOMAIN tsMap}

C11_Witness ==
    /\ rpc = "returned"
    /\ resp # Nil
    /\ \E i, j \in MergedRows :
          /\ delivered[i].q = 1
          /\ delivered[j].q = 2
          /\ RowLabelSet(delivered[i].row) = RowLabelSet(delivered[j].row)
          /\ \E a \in 1 .. Len(ReturnedSeries) :
                /\ Occurrences(ReturnedSeries[a].Samples, RowSample(delivered[i].row)) >= 1
                /\ Occurrences(ReturnedSeries[a].Samples, RowSample(delivered[j].row)) >= 1
                /\ Len(ReturnedSeries[a].Samples) >= 2

SameRowsAgain ==
    /\ rpc = "returned"
    /\ readErr = "nil"
    /\ resp # Nil
    /\ lastCall # Nil
    /\ lastCall.resp # Nil
    /\ lastCall.delivered = delivered

SeriesSet(response) ==
    {response.Results[1].Timeseries[a] : a \in 1 .. Len(response.Results[1].Timeseries)}

\* C13 (as claimed): two Read calls that receive identical rows in identical
\* order return their series in the same order.
C13_SeriesOrderStable ==
    SameRowsAgain => resp.Results[1].Timeseries = lastCall.resp.Results[1].Timeseries

\* C14: two separate Read calls fed the same rows return the same set of
\* series, each with equal label list and equal sample sequence, and the
\* later call returns nothing but the series of its own rows.
C14_MergeIdempotent ==
    /\ SameRowsAgain =>
          /\ SeriesSet(resp) = SeriesSet(lastCall.resp)
          /\ Len(ReturnedSeries) = Len(lastCall.resp.Results[1].Timeseries)
    /\ (resp # Nil /\ lastCall # Nil) =>
          \A a \in 1 .. Len(ReturnedSeries) :
             /\ ReturnedSeries[a].Samples
                   = SamplesFor(LabelSetOf(ReturnedSeries[a].Labels), Len(delivered))
             /\ ReturnedSeries[a].Samples # <<>>

C14_Witness ==
    /\ SameRowsAgain
    /\ Len(delivered) >= 2
    /\ Len(ReturnedSeries) = 2

\* C15 (as claimed): in every series Read returns, the samples are in
\* non-decreasing timestamp order, whatever the number of sub-queries.
C15_SamplesAscending ==
    resp # Nil =>
        \A a \in 1 .. Len(ReturnedSeries) :
           \A j \in 1 .. Len(ReturnedSeries[a].Samples) - 1 :
              ReturnedSeries[a].Samples[j].Timestamp
                  <= ReturnedSeries[a].Samples[j + 1].Timestamp

\* C16: a successful Read returns a response with exactly one result set,
\* for zero, one or several sub-queries; its series list holds the merged
\* series and is empty when no row was merged.
C16_OneResultSet ==
    (rpc = "returned" /\ readErr = "nil") =>
        /\ resp # Nil
        /\ Len(resp.Results) = 1
        /\ SeriesSet(resp) = {tsMap[fp] : fp \in DOMAIN tsMap}
        /\ Len(ReturnedSeries) = Cardinality(DOMAIN tsMap)
        /\ MergedRows = {} <=> ReturnedSeries = <<>>

C16_Witness ==
    /\ rpc = "returned"
    /\ readErr = "nil"
    /\ Len(req) = 2
    /\ Len(resp.Results) = 1
    /\ Len(ReturnedSeries) = 2

-----------------------------------------------------------------------------
(* Claims about the tags *)

\* the labels of the drawn list other than the metric name
OtherLabels ==
    LET m == metricOfLabels(tmSeries.Labels, EmptyMap)
    IN [l \in DOMAIN m \ {MetricNameLabel} |-> m[l]]

\* C17: the tags tagsFromMetric produces are a JSON object without the key
\* __name__; decoding them gives back exactly the labels other than the
\* metric name; with no other label the tags are {}.
C17_TagsRoundTrip ==
    /\ tmTags # Nil =>
          /\ tmTags.kind = "object"
          /\ MetricNameLabel \notin DOMAIN tmTags.members
          /\ DOMAIN tmTags.members = DOMAIN OtherLabels
          /\ \A k \in DOMAIN tmTags.members :
                /\ IsJsonString(tmTags.members[k])
                /\ jsonStringValue(tmTags.members[k]) = OtherLabels[k]
          /\ DOMAIN OtherLabels = {} => tmTags = json_Marshal(EmptyMap)
    /\ tmBack # Nil =>
          /\ tmBack.outcome = "ok"
          /\ [l \in DOMAIN tmBack.metric \ {MetricNameLabel} |-> tmBack.metric[l]] = OtherLabels

C17_Witness ==
    /\ tmBack # Nil
    /\ tmBack.outcome = "ok"
    /\ MetricNameLabel \in DOMAIN metricOfLabels(tmSeries.Labels, EmptyMap)
    /\ Cardinality(DOMAIN OtherLabels) = 2
    /\ \E k \in DOMAIN OtherLabels : \E i \in 1 .. Len(OtherLabels[k]) : OtherLabels[k][i] = "\\"

-----------------------------------------------------------------------------
(* Claims about concurrent Write invocations *)

RECURSIVE SumOver(_, _)
SumOver(S, f) ==
    IF S = {} THEN 0
    ELSE LET x == CHOOSE y \in S : TRUE IN f[x] + SumOver(S \ {x}, f)

\* samples, and non-finite samples, of the requests of all invocations
SubmittedSamples == SumOver(Writers, [w \in Writers |-> Cardinality(SamplePositions(wr[w].tss))])

SubmittedNonFinite ==
    SumOver(Writers, [w \in Writers |-> Cardinality(NonFinitePositions(wr[w].tss))])

AllReturned == \A w \in Writers : wr[w].pc = "done"

\* C18: when concurrent Write invocations have all returned, the
\* ignored-samples counter equals the number of non-finite samples and the
\* records counter the number of samples they submitted, for every
\* interleaving; until then neither counter exceeds that number.
C18_NoLostCounterUpdate ==
    /\ AllReturned =>
          /\ ignoredSamples = SubmittedNonFinite
          /\ recordsFetched = SubmittedSamples
    /\ ignoredSamples <= SubmittedNonFinite
    /\ recordsFetched <= SubmittedSamples

C18_Witness ==
    /\ AllReturned
    /\ \E w \in Writers : wr[w].overlap
    /\ \A w \in Writers : NonFinitePositions(wr[w].tss) # {}
    /\ ignoredSamples >= 2
    /\ recordsFetched >= 4

-----------------------------------------------------------------------------
(* Claims about the generated WHERE clause *)

OperatorOf(type) ==
    CASE type = "EQ"  -> "="
      [] type = "NEQ" -> "!="
      [] type = "RE"  -> "REGEXP_CONTAINS"
      [] type = "NRE" -> "not REGEXP_CONTAINS"

\* the string a well-formed literal stands for: the compared string, or the
\* characters the regular expression matches
Denoted(p) ==
    IF IsRegexOp(p.op) THEN regexLiteral(sqlLiteral(p.lit, TRUE, <<>>).value)
    ELSE sqlLiteral(p.lit, FALSE, <<>>).value

\* C19: a matcher on the metric name becomes a predicate on the metricname
\* column alone, with the operator of its kind and a literal for its value;
\* on every row not-equal is true exactly where equal is false, and
\* regex-not-match exactly where regex-match is false.
C19_MetricNamePredicates ==
    (cmd # Nil /\ cmd.err = "nil") =>
        \A i \in 1 .. Len(cq.Matchers) :
            LET m == cq.Matchers[i]
                p == cmd.query.where[i]
            IN m.Name = MetricNameLabel =>
                /\ p.column = "metricname"
                /\ p.path = <<>>
                /\ ~p.ifnull
                /\ p.op = OperatorOf(m.Type)
                /\ predicateWellFormed(p) =>
                      /\ Denoted(p) = m.Value
                      /\ \A row \in EvalRows :
                            evalPredicate(p, row) =
                                CASE m.Type = "EQ"  -> SqlBool(row.metricname = m.Value)
                                  [] m.Type = "NEQ" -> SqlBool(row.metricname # m.Value)
                                  [] m.Type = "RE"  -> SqlBool(Contains(row.metricname, m.Value))
                                  [] m.Type = "NRE" -> SqlBool(~Contains(row.metricname, m.Value))
                /\ \A j \in 1 .. Len(cq.Matchers) :
                      ( \/ m.Type = "EQ" /\ cq.Matchers[j] = [m EXCEPT !.Type = "NEQ"]
                        \/ m.Type = "RE" /\ cq.Matchers[j] = [m EXCEPT !.Type = "NRE"] )
                      => \A row \in EvalRows :
                            (evalPredicate(cmd.query.where[j], row) = "TRUE")
                                <=> (evalPredicate(p, row) = "FALSE")

C19_Witness ==
    /\ cmd # Nil
    /\ cmd.err = "nil"
    /\ Len(cq.Matchers) = 2
    /\ cq.Matchers[1] = LabelMatcher("EQ", MetricNameLabel, <<"a">>)
    /\ cq.Matchers[2] = LabelMatcher("NEQ", MetricNameLabel, <<"a">>)
    /\ \E row \in EvalRows : evalPredicate(cmd.query.where[1], row) = "TRUE"
    /\ \E row \in EvalRows : evalPredicate(cmd.query.where[2], row) = "TRUE"

\* C20: for a sub-query with supported matchers the WHERE clause is one
\* predicate per matcher, in matcher order, then timestamp >= start and
\* timestamp <= end, all joined by AND: a row is selected exactly when every
\* matcher predicate is true of it and its timestamp lies in [start, end].
C20_WhereClauseConjunction ==
    cmd # Nil =>
        /\ cmd.err = "nil" <=> \A i \in 1 .. Len(cq.Matchers) : cq.Matchers[i].Type \in SupportedTypes
        /\ cmd.err = "nil" =>
              LET w == cmd.query.where
                  n == Len(cq.Matchers)
              IN /\ Len(w) = n + 2
                 /\ \A i \in 1 .. n :
                       /\ w[i].op = OperatorOf(cq.Matchers[i].Type)
                       /\ w[i].column =
                             (IF cq.Matchers[i].Name = MetricNameLabel THEN "metricname" ELSE "tags")
                       /\ w[i].column = "tags" => w[i].path = JsonPath(cq.Matchers[i].Name)
                 /\ w[n + 1] = BoundPredicate(">=", cq.StartTimestampMs)
                 /\ w[n + 2] = BoundPredicate("<=", cq.EndTimestampMs)
                 /\ \A row \in EvalRows :
                       rowSelected(cmd.query, row) <=>
                           /\ \A i \in 1 .. n : evalPredicate(w[i], row) = "TRUE"
                           /\ cq.StartTimestampMs <= row.timestamp
                           /\ row.timestamp <= cq.EndTimestampMs

C20_Witness ==
    /\ cmd # Nil
    /\ cmd.err = "nil"
    /\ Len(cq.Matchers) = 2
    /\ \E row \in EvalRows : rowSelected(cmd.query, row) /\ row.timestamp = cq.StartTimestampMs
    /\ \E row \in EvalRows : rowSelected(cmd.query, row) /\ row.timestamp = cq.EndTimestampMs
    /\ \E row \in EvalRows :
          /\ ~rowSelected(cmd.query, row)
          /\ \A i \in 1 .. Len(cq.Matchers) : evalPredicate(cmd.query.where[i], row) = "TRUE"

-----------------------------------------------------------------------------
(* The records counter *)

\* C21: every Write call raises the records counter by the number of samples
\* of all the series it was given, the skipped non-finite ones included,
\* whatever the insertion call returns afterwards
C21_RecordsCountAllSamples ==
    [][writes' = writes + 1 =>
          recordsFetched' = recordsFetched + Cardinality(SamplePositions(timeseries'))]_vars

\* a Write that held a non-finite sample and whose insertion call failed
C21_Witness ==
    /\ writes > 0
    /\ NonFinitePositions(timeseries) # {}
    /\ writeErr # "nil"
    /\ recordsFetched >= Cardinality(SamplePositions(timeseries))
    /\ ignoredSamples > 0

-----------------------------------------------------------------------------
(* The labels of a returned series *)

\* the labels the tags column of a row decodes to
DecodedTags(row) ==
    {[Name |-> k, Value |-> jsonStringValue(row.tags.members[k])] :
        k \in DOMAIN row.tags.members}

\* C22: every series Read returns has its labels in ascending order of their
\* names, and they are the label __name__, once, carrying the metric name of
\* a merged row, together with exactly the labels that row's tags decode to
C22_LabelsSortedNameOnce ==
    resp # Nil =>
       \A a \in 1 .. Len(ReturnedSeries) :
          LET L == ReturnedSeries[a].Labels IN
          /\ \A i \in 1 .. Len(L) - 1 : StrLess(L[i].Name, L[i + 1].Name)
          /\ Cardinality({i \in 1 .. Len(L) : L[i].Name = MetricNameLabel}) = 1
          /\ \E n \in MergedRows :
                LET row == delivered[n].row IN
                /\ [Name |-> MetricNameLabel, Value |-> row.metricname] \in LabelSetOf(L)
                /\ {l \in LabelSetOf(L) : l.Name # MetricNameLabel} = DecodedTags(row)
                /\ Len(L) = Cardinality(DecodedTags(row)) + 1

\* a returned series whose row had a tag, appended before the metric name
C22_Witness ==
    /\ rpc = "returned"
    /\ resp # Nil
    /\ \E a \in 1 .. Len(ReturnedSeries) :
          /\ Len(ReturnedSeries[a].Labels) >= 2
          /\ ReturnedSeries[a].Labels[1].Name = MetricNameLabel

-----------------------------------------------------------------------------
(* The order of the samples of a series *)

\* C23: the rows reach the merge sub-query by sub-query, and the samples of
\* every series, while it is merged and when it is returned, are the samples
\* of its rows in the order the rows were handed over: those of an earlier
\* sub-query before those of a later one, those of one sub-query in the order
\* of the iterator
C23_SamplesInDeliveryOrder ==
    /\ \A i, j \in 1 .. Len(delivered) : i < j => delivered[i].q <= delivered[j].q
    /\ \A fp \in DOMAIN tsMap :
          tsMap[fp].Samples = SamplesFor(LabelSetOf(tsMap[fp].Labels), Len(delivered))
    /\ resp # Nil =>
          \A a \in 1 .. Len(ReturnedSeries) :
             /\ \E fp \in DOMAIN tsMap : ReturnedSeries[a] = tsMap[fp]
             /\ ReturnedSeries[a].Samples
                   = SamplesFor(LabelSetOf(ReturnedSeries[a].Labels), Len(delivered))

\* a returned series whose later sub-query gave an earlier timestamp: the
\* order of the samples is that of the delivery, not that of the timestamps
C23_Witness ==
    /\ rpc = "returned"
    /\ resp # Nil
    /\ \E i, j \in MergedRows : delivered[i].q = 1 /\ delivered[j].q = 2
    /\ \E a \in 1 .. Len(ReturnedSeries) :
          \E k \in 1 .. Len(ReturnedSeries[a].Samples) - 1 :
             ReturnedSeries[a].Samples[k].Timestamp > ReturnedSeries[a].Samples[k + 1].Timestamp

-----------------------------------------------------------------------------
(* Tags that are JSON but no object of strings *)

\* the rows handed over whose tags decode, but not to an object of strings
NonObjectTagRows ==
    {i \in 1 .. Len(delivered) : rowToSample(delivered[i].row).outcome = "panic"}

\* C24: when a row handed over has tags that are valid JSON but no object of
\* string to string, the Read call ends by returning an error to its caller,
\* with no response, and not by a type-assertion panic
C24_NonObjectTagsReturnError ==
    NonObjectTagRows # {} =>
        /\ rpc = "returned"
        /\ readErr # "nil"
        /\ resp = Nil

-----------------------------------------------------------------------------
(* The queries of one Read call *)

\* the rows handed over for sub-query k
DeliveredOf(k) == {i \in 1 .. Len(delivered) : delivered[i].q = k}

\* C25: the queries of a Read call are those of its sub-queries 1, 2, ... in
\* that order, each at most once; the query of a sub-query is issued only
\* when every row the sub-queries before it selected has been merged; the
\* sub-query at which the call fails is the last one with a query
C25_QueriesInOrderOncePerSubQuery ==
    rpc # "idle" =>
       /\ queryLog = [k \in 1 .. Len(queryLog) |-> k]
       /\ Len(queryLog) <= Len(req)
       /\ sqlQueryCount = Len(queryLog)
       /\ rpc = "merge" => Len(queryLog) = qi
       /\ rpc = "loop" => Len(queryLog) = qi - 1
       /\ rpc \in {"returned", "panicked"} => Len(queryLog) \in {qi - 1, qi}
       /\ \A k \in 1 .. Len(queryLog) - 1 :
             /\ DeliveredOf(k) \subseteq MergedRows
             /\ Cardinality(DeliveredOf(k))
                   = BagCardinality(selectedRows(buildCommand(req[k]).query, table))
       /\ \A i \in 1 .. Len(delivered) : delivered[i].q \in 1 .. Len(queryLog)

\* a Read call of two sub-queries that failed while merging the rows of the
\* first: the query of the second was never issued
C25_Witness ==
    /\ rpc = "returned"
    /\ readErr # "nil"
    /\ Len(req) = 2
    /\ qi = 1
    /\ queryLog = <<1>>
    /\ delivered # <<>>

-----------------------------------------------------------------------------
(* Conservation of the samples on read *)

\* the number of samples over all the series of a list
RECURSIVE TotalSamples(_)
TotalSamples(series) ==
    IF series = <<>> THEN 0 ELSE Len(Head(series).Samples) + TotalSamples(Tail(series))

\* the number of rows the queries of sub-queries 1 .. n select from the table
RECURSIVE TotalSelected(_)
TotalSelected(n) ==
    IF n = 0 THEN 0
    ELSE BagCardinality(selectedRows(buildCommand(req[n]).query, table)) + TotalSelected(n - 1)

\* C27: after a successful Read the returned series hold as many samples as
\* rows were handed over, which is as many as the queries of all the
\* sub-queries selected, each row counted once for every sub-query that
\* selected it
C27_SamplesConserved ==
    (rpc = "returned" /\ readErr = "nil") =>
        /\ resp # Nil
        /\ TotalSamples(ReturnedSeries) = Len(delivered)
        /\ Len(delivered) = TotalSelected(Len(req))
        /\ \A i \in 1 .. Len(delivered) :
              \E a \in 1 .. Len(ReturnedSeries) :
                 Occurrences(ReturnedSeries[a].Samples, RowSample(delivered[i].row))
                    >= Cardinality({j \in 1 .. Len(delivered) :
                                       delivered[j].row = delivered[i].row})

\* a successful Read in which one row was selected by both sub-queries and
\* its sample is twice in its series
C27_Witness ==
    /\ rpc = "returned"
    /\ readErr = "nil"
    /\ resp # Nil
    /\ \E i \in DeliveredOf(1), j \in DeliveredOf(2) :
          /\ delivered[i].row = delivered[j].row
          /\ \E a \in 1 .. Len(ReturnedSeries) :
                Occurrences(ReturnedSeries[a].Samples, RowSample(delivered[i].row)) = 2

-----------------------------------------------------------------------------
(* The /write handler and sendSamples *)

\* the requests whose body was decoded
Decoded == {r \in Requests : handlers[r].kind = "ok" /\ handlers[r].pc \in {"wait", "done"}}

\* the sendSamples calls that have returned, as <<request, writer index>>
Returned ==
    {p \in Requests \X (1 .. Len(writers)) :
        /\ p[1] \in Decoded
        /\ handlers[p[1]].go[p[2]].pc = "done"}

ReturnedFor(name, failed) ==
    {p \in Returned : /\ handlers[p[1]].go[p[2]].name = name
                      /\ (handlers[p[1]].go[p[2]].err # "nil") = failed}

SeriesOf(P) == SumOver(P, [p \in P |-> Len(handlers[p[1]].Timeseries)])

\* C26: for every /write request whose body was decoded there is one
\* goroutine per configured writer, each calls Write on its own writer at
\* most once, with the series list of the request; the handler has returned,
\* and the write-processing duration has been observed for it, only when
\* each of those calls has been made once and has returned
C26_WriteOncePerWriterThenFinish ==
    /\ \A r \in Decoded :
          /\ DOMAIN handlers[r].go = 1 .. Len(writers)
          /\ \A w \in 1 .. Len(writers) :
                LET g == handlers[r].go[w] IN
                /\ g.name = writers[w]
                /\ g.calls = (IF g.pc = "spawned" THEN 0 ELSE 1)
                /\ g.pc # "spawned" => g.arg = handlers[r].Timeseries
                /\ handlers[r].pc = "done" => g.pc = "done"
    /\ \A r \in Requests \ Decoded : handlers[r].go = <<>>
    /\ writeProcessingDuration = Cardinality({r \in Decoded : handlers[r].pc = "done"})

\* a request to two writers has been finished, one Write having failed
C26_Witness ==
    \E r \in Decoded :
       /\ handlers[r].pc = "done"
       /\ Len(writers) = 2
       /\ handlers[r].go[1].err # handlers[r].go[2].err
       /\ writeProcessingDuration >= 1

C29_ResponseIgnoresWriteFailure ==
    \A r \in Decoded :
       /\ handlers[r].pc = "done" => handlers[r].status = 200 /\ ~handlers[r].errorBody
       /\ handlers[r].pc = "wait" => handlers[r].status = 0 /\ ~handlers[r].errorBody
       /\ \A w \in 1 .. Len(writers) :
             handlers[r].go[w].err # "nil" =>
                /\ warnings > 0
                /\ writeErrors > 0
                /\ failedSamples[handlers[r].go[w].name] >= Len(handlers[r].Timeseries)

\* two answered requests, the Write of one failed and that of the other did
\* not, with the same response
C29_Witness ==
    \E r, q \in Decoded :
       /\ handlers[r].pc = "done"
       /\ handlers[q].pc = "done"
       /\ \E w \in 1 .. Len(writers) : handlers[r].go[w].err # "nil"
       /\ \A w \in 1 .. Len(writers) : handlers[q].go[w].err = "nil"
       /\ handlers[r].status = handlers[q].status
       /\ handlers[r].errorBody = handlers[q].errorBody

-----------------------------------------------------------------------------
(* The shutdown *)

\* C30: serve has returned only when a signal was received and Shutdown has
\* returned nil, so with no request in flight any more; it has not returned
\* while Shutdown is running; after another error of ListenAndServe or an
\* error of Shutdown serve does not return, and the process ends with code 1
\* for these two reasons only and with code 0 only after serve has returned
C30_ReturnAfterShutdown ==
    /\ servePc = "returned" =>
          /\ oscall \in {"SIGTERM", "interrupt"}
          /\ sigPc = "done"
          /\ idleConnectionClosed
          /\ InFlight = {}
    /\ sigPc = "shutdown" => servePc # "returned"
    /\ (servePc = "failed" \/ sigPc = "failed") =>
          /\ servePc # "returned"
          /\ process \in {"running", "exit1"}
    /\ process = "exit1" => (servePc = "failed" \/ sigPc = "failed")
    /\ process = "exit0" => servePc = "returned"

\* serve has returned after a shutdown that had a request to wait for
C30_Witness ==
    /\ servePc = "returned"
    /\ \E r \in Decoded : handlers[r].atShutdown /\ handlers[r].pc = "done"

====
